---- MODULE Spec2Model ----
(***************************************************************************)
(* Model of the biometric_integration device protocol engine:             *)
(*   - the EBKN block reassembler of services/ebkn_processor.py            *)
(*     (handle_request and its block-map / partial-file helpers),          *)
(*   - the outbound command queue (add_command, _queue_get_user_info,      *)
(*     BiometricDeviceCommand.before_save, process_device_command).        *)
(* Each part has a sequential specification, in which one action is one    *)
(* whole handler call, and a concurrent one, in which several workers run  *)
(* the same handler step by step against the shared storage.               *)
(***************************************************************************)
EXTENDS Integers, Sequences, FiniteSets, TLC

\* ------------------------------------------------------------------------
\* Bounds of the model
\* ------------------------------------------------------------------------
MaxReqs == 4
MaxBlk == 3
MaxConcReqs == 3
MaxCmds == 3
MaxPolls == 3

\* ------------------------------------------------------------------------
\* Inputs of the block reassembler
\* ------------------------------------------------------------------------
DevIds == {"D1", "D2"}
REQ_REALTIME_GLOG == "realtime_glog"
ReqCodes == {REQ_REALTIME_GLOG}
BlkNos == 0..MaxBlk
Chunks == {<<1>>, <<2>>}
Workers == {"w1", "w2"}

None == -1
NoReply == [body |-> "", status |-> 0, response_code |-> ""]
NoPayload == <<None>>

\* a worker that is handling no request
IdleWorker == [pc |-> "idle", dev_id |-> "", request_code |-> "", blk_no |-> 0,
               raw_data |-> <<>>, last_blk |-> None, m |-> <<>>, full_payload |-> NoPayload]

\* ------------------------------------------------------------------------
\* ebkn_processor.py: block-sequence bookkeeping and partial-file storage.
\* The block map is the dict stored in block_sequence_map.json, the partial
\* files are the *.bin files of PARTIAL_DIR; both are functions whose
\* domain is the set of keys (paths) that exist.
\* ------------------------------------------------------------------------
_seq_key(dev_id, request_code) == dev_id \o "_" \o request_code

_partial_path(dev_id, request_code) == dev_id \o "_" \o request_code \o ".bin"

AllKeys == {_seq_key(d, r) : d \in DevIds, r \in ReqCodes}
AllPaths == {_partial_path(d, r) : d \in DevIds, r \in ReqCodes}

Restrict(f, S) == [x \in S |-> f[x]]

Put(f, k, v) == [x \in (DOMAIN f) \cup {k} |-> IF x = k THEN v ELSE f[x]]

\* m[key] = blk_no on a loaded copy of the map
MapSet(m, key, blk_no) == Put(m, key, blk_no)

\* m.pop(key, None) on a loaded copy of the map
MapPop(m, key) == Restrict(m, (DOMAIN m) \ {key})

\* _load_block_map().get(key)
_get_last_block(map, dev_id, request_code) ==
    IF _seq_key(dev_id, request_code) \in DOMAIN map
    THEN map[_seq_key(dev_id, request_code)]
    ELSE None

\* load, set, save in one piece
_set_last_block(map, dev_id, request_code, blk_no) ==
    MapSet(map, _seq_key(dev_id, request_code), blk_no)

\* load, pop, save in one piece
_clear_sequence(map, dev_id, request_code) ==
    MapPop(map, _seq_key(dev_id, request_code))

\* a remove that leaves the file in place
RemoveFile_kept(files, path) == files

\* os.remove(path), FileNotFoundError ignored
RemoveFile(files, path) == Restrict(files, (DOMAIN files) \ {path})

\* a write that truncates the file instead of appending to it
_append_block_truncating(files, dev_id, request_code, data) ==
    Put(files, _partial_path(dev_id, request_code), data)

\* open(path, "ab").write(data): creates the file when it is missing
_append_block(files, dev_id, request_code, data) ==
    LET path == _partial_path(dev_id, request_code)
    IN  Put(files, path, (IF path \in DOMAIN files THEN files[path] ELSE <<>>) \o data)

\* the file's bytes, or None (here NoPayload) when the file does not exist
_read_sequence(files, dev_id, request_code) ==
    LET path == _partial_path(dev_id, request_code)
    IN  IF path \in DOMAIN files THEN files[path] ELSE NoPayload

\* a check that lets any later block through, gaps included
SequenceMismatch_gaps(last_blk, blk_no) == last_blk = None \/ blk_no <= last_blk

\* the middle-block test of handle_request
SequenceMismatch(last_blk, blk_no) == last_blk = None \/ blk_no # last_blk + 1

\* a test that takes a stored 0, not a missing entry, for "no session"
SingleShot_zero(last_blk) == last_blk = 0

\* the single-shot test of handle_request on block 0
SingleShot(last_blk) == last_blk = None

_ok_after_block == [body |-> "", status |-> 200, response_code |-> "OK"]

_fail(msg) == [body |-> msg, status |-> 400, response_code |-> "ERROR"]

VARIABLES
    blockMap,   \* contents of block_sequence_map.json
    partial,    \* the partial files: path -> bytes
    reply,      \* reply of the last request when block assembly answered it
    handed,     \* full_payload handed to decoding by the last request
    reqLog,     \* history: the requests submitted, in order
    wk,         \* concurrent workers: position and locals of handle_request
    accLog      \* history: per key, the block numbers appended since block 1

asmVars == <<blockMap, partial, reply, handed, reqLog, wk, accLog>>

VARIABLES
    cmds,        \* the Biometric Device Command table; a command's name is its index
    hasPending,  \* Biometric Device.has_pending_command, per device
    users,       \* the Biometric Device User documents
    settings,    \* the Biometric Integration Settings single document
    now,         \* the current time, in days
    lastOp,      \* history: the last queue operation and its result
    qwk          \* concurrent workers: position and locals of an enqueue call

queueVars == <<cmds, hasPending, users, settings, now, lastOp, qwk>>

VARIABLES
    raw,         \* the payload given to _extract_json_and_bins
    decoded,     \* what _extract_json_and_bins gave for it
    inlined      \* what _json_with_inlined_bins gave for that

codecVars == <<raw, decoded, inlined>>

VARIABLES
    checkins     \* the Employee Checkin records

checkinVars == <<checkins>>

VARIABLES
    listener,    \* the listener of the site: nginx.conf blocks and site_config.json key
    sync,        \* a run of sync_device_attendance: its position and its counters
    siteMap      \* the device-to-site map: the entry of every registered device

toolVars == <<listener, sync, siteMap>>

vars == <<asmVars, queueVars, codecVars, checkinVars, toolVars>>

\* no listener has been enabled: nginx.conf has no listener block and
\* site_config.json no biometric_listener_port (0: the key is absent)
NoListener == [blocks |-> {}, port |-> 0, last |-> "", ok |-> FALSE, lastOk |-> "",
               status |-> "disabled", ops |-> 0]

\* no sync is running
NoSync == [pc |-> "idle", total |-> 0, position |-> 0, requests |-> 0, count |-> 0,
           skipped |-> 0, result |-> "", last |-> 0]

ToolIdle == listener = NoListener /\ sync = NoSync /\ siteMap = <<>>

\* ------------------------------------------------------------------------
\* The command queue: inputs
\* ------------------------------------------------------------------------
Users == {"U1", "U2"}
Brands == {"EBKN", "ZKTeco"}
BrandOfDevice == [d \in DevIds |-> IF d = "D1" THEN "EBKN" ELSE "ZKTeco"]
AddCommandTypes == {"Enroll User", "Delete User"}
MaxAttemptsChoices == {0, 2}
ForceDaysChoices == {2}
NoBlob == <<>>

\* the user documents: U1 has a template on file for every brand, U2 none
UserDocs ==
    [u \in Users |->
        [user_id |-> IF u = "U1" THEN 7 ELSE 12,
         employee_name |-> u,
         ebkn_enroll_data |-> IF u = "U1" THEN <<1, 2, 3, 4>> ELSE NoBlob,
         zkteco_enroll_data |-> IF u = "U1" THEN <<5, 6>> ELSE NoBlob,
         hikvision_enroll_data |-> IF u = "U1" THEN <<8>> ELSE NoBlob,
         devices |-> {},
         allow_user_in_all_devices |-> 0]]

NoPayloadBuilt == [trans_id |-> 0, cmd_code |-> "", body |-> <<>>]

NoOp == [op |-> "", device |-> "", user |-> "", brand |-> "", command_type |-> "",
         selected |-> 0, shipped |-> FALSE, created |-> FALSE, again |-> FALSE,
         payload |-> NoPayloadBuilt]

IdleEnqueue == [pc |-> "idle", device |-> "", user |-> "", brand |-> "",
                command_type |-> "", status |-> ""]

\* ------------------------------------------------------------------------
\* Biometric Device Command documents
\* ------------------------------------------------------------------------
\* value of initiated_on on a new command: the time of creation
InitiatedOnDefault(t) == t

\* value of status on a new command that gives none
StatusDefault == "Pending"

NewCommand(device_id, user_id, brand, command_type, status, creation, t) ==
    [biometric_device |-> device_id,
     biometric_device_user |-> user_id,
     brand |-> brand,
     command_type |-> command_type,
     status |-> status,
     no_of_attempts |-> 0,
     creation |-> creation,
     initiated_on |-> InitiatedOnDefault(t),
     closed_on |-> None,
     last_sent_data_block |-> None,
     device_response |-> <<>>]

\* a before_save with the max-attempts rule alone
before_save_no_age_rule(doc, cfg, t) ==
    IF /\ cfg.maximum_no_of_attempts_for_commands # 0
       /\ doc.no_of_attempts >= cfg.maximum_no_of_attempts_for_commands
       /\ doc.status \notin {"Closed", "Completed"}
    THEN [doc EXCEPT !.status = "Failed", !.closed_on = t]
    ELSE doc

\* BiometricDeviceCommand.before_save: the max-attempts rule, then the
\* age-based force-close rule
before_save(doc, cfg, t) ==
    LET max_attempts == cfg.maximum_no_of_attempts_for_commands
        force_days == cfg.force_close_after
        d1 == IF /\ max_attempts # 0
                 /\ doc.no_of_attempts >= max_attempts
                 /\ doc.status \notin {"Closed", "Completed"}
              THEN [doc EXCEPT !.status = "Failed", !.closed_on = t]
              ELSE doc
    IN  IF /\ force_days # 0
           /\ d1.initiated_on # None
           /\ d1.initiated_on + force_days <= t
           /\ d1.status \notin {"Closed", "Success", "Failed"}
        THEN [d1 EXCEPT !.status = "Failed", !.closed_on = t]
        ELSE d1

\* a save that writes the row as it is given
Save_unhooked(cs, name, doc, cfg, t) == [cs EXCEPT ![name] = doc]

\* cmd_doc.save(): before_save, then the row is written
Save(cs, name, doc, cfg, t) == [cs EXCEPT ![name] = before_save(doc, cfg, t)]

\* update_has_pending_command(device_id, flag)
update_has_pending_command(hp, device_id, flag) == [hp EXCEPT ![device_id] = flag]

\* frappe.db.exists("Biometric Device Command", {... "status": "Pending"})
PendingFor(cs, device_id, user_id, brand, command_type) ==
    {i \in 1..Len(cs) :
        /\ cs[i].biometric_device = device_id
        /\ cs[i].biometric_device_user = user_id
        /\ cs[i].brand = brand
        /\ cs[i].command_type = command_type
        /\ cs[i].status = "Pending"}

\* an existence test that forgets to look at the status
Exists_any_status(cs, device_id, user_id, brand, command_type) ==
    \E i \in 1..Len(cs) :
        /\ cs[i].biometric_device = device_id
        /\ cs[i].biometric_device_user = user_id
        /\ cs[i].brand = brand
        /\ cs[i].command_type = command_type

Exists(cs, device_id, user_id, brand, command_type) ==
    PendingFor(cs, device_id, user_id, brand, command_type) # {}

\* cmd.insert(): before_save runs on the new document, the row is written
\* with the next creation stamp, then after_insert flags the device
Insert(cs, hp, device_id, user_id, brand, command_type, status, cfg, t) ==
    LET doc == NewCommand(device_id, user_id, brand, command_type, status, Len(cs) + 1, t)
    IN  [cmds |-> Append(cs, before_save(doc, cfg, t)),
         hasPending |-> update_has_pending_command(hp, device_id, 1)]

\* an enqueue that inserts without looking for an equivalent command
add_command_unchecked(cs, hp, device_id, user_id, brand, command_type, cfg, t) ==
    Insert(cs, hp, device_id, user_id, brand, command_type, "Pending", cfg, t)

add_command(cs, hp, device_id, user_id, brand, command_type, cfg, t) ==
    IF Exists(cs, device_id, user_id, brand, command_type)
    THEN [cmds |-> cs, hasPending |-> hp]
    ELSE Insert(cs, hp, device_id, user_id, brand, command_type, "Pending", cfg, t)

_queue_get_user_info(cs, hp, dev_id, user_id, cfg, t) ==
    IF Exists(cs, dev_id, user_id, "EBKN", "Get Enroll Data")
    THEN [cmds |-> cs, hasPending |-> hp]
    ELSE Insert(cs, hp, dev_id, user_id, "EBKN", "Get Enroll Data", StatusDefault, cfg, t)

\* ------------------------------------------------------------------------
\* biometric_device_user.py: the user documents and the hooks of their
\* insert and save.  A user table maps the name of a document to the
\* document; devs maps a registered device to its brand and its disabled
\* flag.  A blob field holds the URL of the File made of the uploaded
\* bytes; the model keeps the bytes, so a field changes when the bytes do.
\* The rows of a document are a set: the order of the child table is not
\* modelled, and commands for several devices are inserted in a fixed order.
\* ------------------------------------------------------------------------
\* the brands of _BRAND_BLOB_FIELD, in the order of the dict
_BRAND_BLOB_FIELD == <<"ZKTeco", "EBKN", "Hikvision", "Suprema">>

\* get_doc_before_save() of a document that is being inserted
NoDoc == [user_id |-> ""]

\* no device: None
NoDevice == ""

\* no document is returned
NoName == 0

\* doc.get(blob_field); no Suprema template is ever stored
BlobOf(doc, brand) ==
    IF brand = "EBKN" THEN doc.ebkn_enroll_data
    ELSE IF brand = "ZKTeco" THEN doc.zkteco_enroll_data
    ELSE IF brand = "Hikvision" THEN doc.hikvision_enroll_data
    ELSE NoBlob

\* user_doc.set(blob_field, file_doc.file_url)
SetBlob(doc, brand, data) ==
    IF brand = "EBKN" THEN [doc EXCEPT !.ebkn_enroll_data = data]
    ELSE IF brand = "ZKTeco" THEN [doc EXCEPT !.zkteco_enroll_data = data]
    ELSE IF brand = "Hikvision" THEN [doc EXCEPT !.hikvision_enroll_data = data]
    ELSE doc

\* frappe.new_doc("Biometric Device User") with user_id and employee_name
NewUser(pin, name) ==
    [user_id |-> pin, employee_name |-> name, ebkn_enroll_data |-> NoBlob,
     zkteco_enroll_data |-> NoBlob, hikvision_enroll_data |-> NoBlob,
     devices |-> {}, allow_user_in_all_devices |-> 0]

\* frappe.db.exists("Biometric Device User", {"user_id": pin}) is truthy
HasUser(us, pin) == \E n \in DOMAIN us : us[n].user_id = pin

\* the name it gives then
UserByPin(us, pin) == CHOOSE n \in DOMAIN us : us[n].user_id = pin

\* _get_user_devices(doc, brand); brand "" for None.  The dict is given as
\* the set of its items.
_get_user_devices(doc, brand, devs) ==
    IF doc.allow_user_in_all_devices = 1
    THEN {[biometric_device |-> d, brand |-> devs[d].brand] :
              d \in {x \in DOMAIN devs : /\ devs[x].disabled = 0
                                         /\ (brand = "" \/ devs[x].brand = brand)}}
    ELSE {[biometric_device |-> r.biometric_device, brand |-> r.brand] :
              r \in {x \in doc.devices : /\ x.biometric_device # NoDevice
                                         /\ (brand = "" \/ x.brand = brand)}}

\* add_command(device, name, brand, command_type) for every item of targets
RECURSIVE AddCommands(_, _, _, _, _, _)
AddCommands(q, targets, name, command_type, cfg, t) ==
    IF targets = {} THEN q
    ELSE LET x == CHOOSE r \in targets : TRUE
         IN  AddCommands(add_command(q.cmds, q.hasPending, x.biometric_device, name, x.brand,
                                     command_type, cfg, t),
                         targets \ {x}, name, command_type, cfg, t)

\* the device that was the source of the data of the brand, or None
SourceDevice(doc, brand) ==
    IF \E r \in doc.devices : r.brand = brand /\ r.enroll_data_source = 1
    THEN (CHOOSE r \in doc.devices : r.brand = brand /\ r.enroll_data_source = 1).biometric_device
    ELSE NoDevice

\* doc.has_value_changed(blob_field)
HasValueChanged(doc, before, brand) ==
    before = NoDoc \/ BlobOf(doc, brand) # BlobOf(before, brand)

\* _sync_on_enrollment_data_change, for the first n brands
RECURSIVE _sync_on_enrollment_data_change(_, _, _, _, _, _, _, _)
_sync_on_enrollment_data_change(q, doc, before, name, devs, n, cfg, t) ==
    IF n = 0 THEN q
    ELSE LET brand == _BRAND_BLOB_FIELD[n]
             q1 == _sync_on_enrollment_data_change(q, doc, before, name, devs, n - 1, cfg, t)
         IN  IF HasValueChanged(doc, before, brand) /\ BlobOf(doc, brand) # NoBlob
             THEN AddCommands(q1,
                              {x \in _get_user_devices(doc, brand, devs) :
                                   x.biometric_device # SourceDevice(doc, brand)},
                              name, "Enroll User", cfg, t)
             ELSE q1

\* the keys of the dict of devices
DeviceKeys(items) == {x.biometric_device : x \in items}

\* the loops of _sync_on_device_list_change over added_devices and
\* removed_devices
DeviceListChange(q, doc, devices_before, devices_after, name, cfg, t) ==
    AddCommands(AddCommands(q, {x \in devices_after :
                                    /\ x.biometric_device \notin DeviceKeys(devices_before)
                                    /\ BlobOf(doc, x.brand) # NoBlob},
                            name, "Enroll User", cfg, t),
                {x \in devices_before : x.biometric_device \notin DeviceKeys(devices_after)},
                name, "Delete User", cfg, t)

\* _sync_on_device_list_change(doc, before_doc)
_sync_on_device_list_change(q, doc, before, name, devs, cfg, t) ==
    DeviceListChange(q, doc, _get_user_devices(before, "", devs),
                     _get_user_devices(doc, "", devs), name, cfg, t)

\* _trigger_sync_logic(doc, is_new); before is doc.get_doc_before_save()
_trigger_sync_logic(q, doc, before, name, devs, is_new, cfg, t) ==
    IF ~is_new /\ before # NoDoc
    THEN _sync_on_device_list_change(
             _sync_on_enrollment_data_change(q, doc, before, name, devs,
                                             Len(_BRAND_BLOB_FIELD), cfg, t),
             doc, before, name, devs, cfg, t)
    ELSE _sync_on_enrollment_data_change(q, doc, before, name, devs,
                                         Len(_BRAND_BLOB_FIELD), cfg, t)

\* the user table us and the command table of q, after an insert or a save
\* of the document of that name
Written(q, us, name, created) ==
    [users |-> us, cmds |-> q.cmds, hasPending |-> q.hasPending, name |-> name,
     created |-> created, raised |-> FALSE]

\* doc.insert(): the row is written under the next name, then after_insert
\* and on_update run
InsertUser(q, us, doc, devs, cfg, t) ==
    Written(_trigger_sync_logic(_trigger_sync_logic(q, doc, NoDoc, Len(us) + 1, devs, TRUE,
                                                    cfg, t),
                                doc, NoDoc, Len(us) + 1, devs, FALSE, cfg, t),
            Append(us, doc), Len(us) + 1, TRUE)

\* doc.save(): the row is written, then on_update runs
SaveUser(q, us, name, doc, devs, cfg, t) ==
    Written(_trigger_sync_logic(q, doc, us[name], name, devs, FALSE, cfg, t),
            [us EXCEPT ![name] = doc], name, FALSE)

\* a lookup that inserts a document on every call
get_or_create_user_by_pin_always(q, us, pin, name, devs, cfg, t) ==
    IF pin = ""
    THEN [users |-> us, cmds |-> q.cmds, hasPending |-> q.hasPending, name |-> NoName,
          created |-> FALSE, raised |-> TRUE]
    ELSE InsertUser(q, us, NewUser(pin, name), devs, cfg, t)

\* get_or_create_user_by_pin(pin, name): the tables afterwards, the name of
\* the document returned, or raised
get_or_create_user_by_pin(q, us, pin, name, devs, cfg, t) ==
    IF pin = ""
    THEN [users |-> us, cmds |-> q.cmds, hasPending |-> q.hasPending, name |-> NoName,
          created |-> FALSE, raised |-> TRUE]
    ELSE IF HasUser(us, pin)
    THEN [users |-> us, cmds |-> q.cmds, hasPending |-> q.hasPending,
          name |-> UserByPin(us, pin), created |-> FALSE, raised |-> FALSE]
    ELSE InsertUser(q, us, NewUser(pin, name), devs, cfg, t)

\* the rows of the child table after the loop of save_enrollment_data and
\* the append
SourceRows(rows, brand, device_sn) ==
    LET marked == {[r EXCEPT !.enroll_data_source =
                        IF r.biometric_device = device_sn THEN 1
                        ELSE IF r.brand = brand THEN 0
                        ELSE @] : r \in rows}
    IN  IF \E r \in rows : r.biometric_device = device_sn
        THEN marked
        ELSE marked \cup {[biometric_device |-> device_sn, brand |-> brand,
                           enroll_data_source |-> 1]}

\* save_enrollment_data(user_doc, brand, device_sn, data), user_doc being
\* the document of that name
save_enrollment_data(q, us, name, brand, device_sn, data, devs, cfg, t) ==
    IF \A n \in 1..Len(_BRAND_BLOB_FIELD) : _BRAND_BLOB_FIELD[n] # brand
    THEN [users |-> us, cmds |-> q.cmds, hasPending |-> q.hasPending, name |-> name,
          created |-> FALSE, raised |-> FALSE]
    ELSE SaveUser(q, us, name,
                  [SetBlob(us[name], brand, data)
                      EXCEPT !.devices = SourceRows(@, brand, device_sn)],
                  devs, cfg, t)

\* step 2 of _handle_realtime_enroll_data: the document u names gets a row
\* for the device unless it has one
EnsureRow(u, dev_id, devs, cfg, t) ==
    IF \E r \in u.users[u.name].devices : r.biometric_device = dev_id
    THEN u
    ELSE [SaveUser(u, u.users, u.name,
                   [u.users[u.name] EXCEPT !.devices =
                       @ \cup {[biometric_device |-> dev_id, brand |-> "EBKN",
                                enroll_data_source |-> 0]}],
                   devs, cfg, t) EXCEPT !.created = u.created]

\* the command table of u after a queue operation gave g
Queued(u, g) == [u EXCEPT !.cmds = g.cmds, !.hasPending = g.hasPending]

\* step 3 of _handle_realtime_enroll_data: _queue_get_user_info
QueueInfo(u, dev_id, cfg, t) ==
    Queued(u, _queue_get_user_info(u.cmds, u.hasPending, dev_id, u.name, cfg, t))

\* _handle_realtime_enroll_data inside its try: the user of the pin is
\* looked up or inserted, gets a row for the device unless it has one, and
\* a Get Enroll Data command is queued
RealtimeEnroll(q, us, dev_id, pin, devs, cfg, t) ==
    QueueInfo(EnsureRow(IF HasUser(us, pin)
                        THEN Written(q, us, UserByPin(us, pin), FALSE)
                        ELSE InsertUser(q, us, NewUser(pin, ""), devs, cfg, t),
                        dev_id, devs, cfg, t),
              dev_id, cfg, t)

\* _store_get_user_info_blob(dev_id, user_id, blob) for the document of
\* that name: the blob becomes the EBKN template of the user, the rows of
\* the EBKN devices are flagged, and the document is saved
_store_get_user_info_blob(q, us, dev_id, name, blob, devs, cfg, t) ==
    SaveUser(q, us, name,
             [us[name] EXCEPT !.ebkn_enroll_data = blob,
                              !.devices =
                                  {[r EXCEPT !.enroll_data_source =
                                        IF r.brand = "EBKN"
                                        THEN IF r.biometric_device = dev_id THEN 1 ELSE 0
                                        ELSE @] : r \in @}],
             devs, cfg, t)

\* ------------------------------------------------------------------------
\* command_processor.py: the builders
\* ------------------------------------------------------------------------
RECURSIVE DigitsOf(_)
DigitsOf(n) == IF n < 10 THEN <<n>> ELSE Append(DigitsOf(n \div 10), n % 10)

\* the digits without any padding
ZeroPad8_unpadded(n) == DigitsOf(n)

\* f"{int(user_id):0>8}"
ZeroPad8(n) ==
    LET ds == DigitsOf(n)
    IN  IF Len(ds) >= 8 THEN ds ELSE [i \in 1..(8 - Len(ds)) |-> 0] \o ds

\* a body is a str, given by its characters, or bytes
Str(chars) == [type |-> "str", val |-> chars]
Bytes(bs) == [type |-> "bytes", val |-> bs]

\* the ASCII character of a decimal digit
DigitChar(dg) == 48 + dg

\* json.dumps({"user_id": digits}): the characters of {"user_id": "..."}
json_dumps_user_id(digits) ==
    Str(<<123, 34, 117, 115, 101, 114, 95, 105, 100, 34, 58, 32, 34>>
            \o [i \in 1..Len(digits) |-> DigitChar(digits[i])]
            \o <<34, 125>>)

\* the characters 0..63 of the base64 alphabet, by their index, and "="
Pad == 64

\* base64.b64encode(bs).decode(): four characters for every three bytes,
\* the last group padded
RECURSIVE b64encode(_)
b64encode(bs) ==
    IF bs = <<>> THEN <<>>
    ELSE IF Len(bs) = 1 THEN
        <<bs[1] \div 4, (bs[1] % 4) * 16, Pad, Pad>>
    ELSE IF Len(bs) = 2 THEN
        <<bs[1] \div 4, (bs[1] % 4) * 16 + bs[2] \div 16, (bs[2] % 16) * 4, Pad>>
    ELSE
        <<bs[1] \div 4, (bs[1] % 4) * 16 + bs[2] \div 16,
          (bs[2] % 16) * 4 + bs[3] \div 64, bs[3] % 64>>
            \o b64encode(SubSeq(bs, 4, Len(bs)))


\* a builder result: raised (an exception left the builder), else the payload,
\* NoPayloadBuilt standing for the builder's None
Raised == [raised |-> TRUE, payload |-> NoPayloadBuilt]
Built(p) == [raised |-> FALSE, payload |-> p]

\* a builder that ships an Enroll User command whatever is on file
_build_ebkn_payload_blank(name, cmd_doc, user_doc) ==
    IF cmd_doc.command_type = "Enroll User"
    THEN Built([trans_id |-> name, cmd_code |-> "SET_USER_INFO",
                body |-> Bytes(user_doc.ebkn_enroll_data)])
    ELSE Built(NoPayloadBuilt)

_build_ebkn_payload(name, cmd_doc, user_doc) ==
    IF cmd_doc.command_type = "Delete User" THEN
        Built([trans_id |-> name, cmd_code |-> "DELETE_USER",
               body |-> json_dumps_user_id(ZeroPad8(user_doc.user_id))])
    ELSE IF cmd_doc.command_type = "Get Enroll Data" THEN
        Built([trans_id |-> name, cmd_code |-> "GET_USER_INFO",
               body |-> json_dumps_user_id(ZeroPad8(user_doc.user_id))])
    ELSE IF cmd_doc.command_type = "Enroll User" THEN
        IF user_doc.ebkn_enroll_data = NoBlob
        THEN Raised
        ELSE Built([trans_id |-> name, cmd_code |-> "SET_USER_INFO",
                    body |-> Bytes(user_doc.ebkn_enroll_data)])
    ELSE Built(NoPayloadBuilt)

\* the command text: its lines, each with the command id, the verb and the fields
_build_zkteco_command(name, cmd_doc, user_doc) ==
    IF cmd_doc.command_type = "Delete User" THEN
        Built(<<[C |-> name, data |-> "DELETE USERINFO", PIN |-> user_doc.user_id]>>)
    ELSE IF cmd_doc.command_type = "Get Enroll Data" THEN
        Built(<<[C |-> name, data |-> "QUERY USERINFO", PIN |-> user_doc.user_id],
                [C |-> name, data |-> "QUERY FPTMP", PIN |-> user_doc.user_id]>>)
    ELSE IF cmd_doc.command_type = "Enroll User" THEN
        IF user_doc.zkteco_enroll_data = NoBlob
        THEN Raised
        ELSE Built(<<[C |-> name, data |-> "UPDATE USERINFO", PIN |-> user_doc.user_id,
                      Name |-> user_doc.employee_name, Pri |-> 0],
                     [C |-> name, data |-> "UPDATE FINGERPRINT", PIN |-> user_doc.user_id,
                      FID |-> 0, Size |-> Len(user_doc.zkteco_enroll_data), Valid |-> 1,
                      TMP |-> b64encode(user_doc.zkteco_enroll_data)]>>)
    ELSE Built(NoPayloadBuilt)

\* the JSON body: the operation and its parameters
_build_hikvision_command(name, cmd_doc, user_doc) ==
    IF cmd_doc.command_type = "Delete User" THEN
        Built([Command |-> "DeleteUser", EmployeeNo |-> DigitsOf(user_doc.user_id)])
    ELSE IF cmd_doc.command_type = "Get Enroll Data" THEN
        Built([Command |-> "GetUserInfo", EmployeeNo |-> DigitsOf(user_doc.user_id)])
    ELSE IF cmd_doc.command_type = "Enroll User" THEN
        IF user_doc.hikvision_enroll_data = NoBlob
        THEN Raised
        ELSE Built([Command |-> "SetUserInfo", EmployeeNo |-> DigitsOf(user_doc.user_id),
                    Name |-> user_doc.employee_name,
                    EnrollData |-> b64encode(user_doc.hikvision_enroll_data)])
    ELSE Built(NoPayloadBuilt)

\* _build_command_payload up to its except clause: the user document is
\* loaded and the builder of the command's brand is called
BuildByBrand(name, cmd_doc, us) ==
    IF cmd_doc.biometric_device_user \notin DOMAIN us THEN Raised
    ELSE IF cmd_doc.brand = "EBKN"
        THEN _build_ebkn_payload(name, cmd_doc, us[cmd_doc.biometric_device_user])
    ELSE IF cmd_doc.brand = "ZKTeco"
        THEN _build_zkteco_command(name, cmd_doc, us[cmd_doc.biometric_device_user])
    ELSE IF cmd_doc.brand = "Hikvision"
        THEN _build_hikvision_command(name, cmd_doc, us[cmd_doc.biometric_device_user])
    ELSE Raised

\* cint(settings.get("maximum_no_of_attempts_for_commands")) or 3
DefaultMaxAttempts == 3
HandlerMaxAttempts(cfg) ==
    IF cfg.maximum_no_of_attempts_for_commands # 0
    THEN cfg.maximum_no_of_attempts_for_commands
    ELSE DefaultMaxAttempts

\* a failure handler that counts the attempt and logs nothing
_handle_command_build_failure_unlogged(cs, name, cfg, t) ==
    LET doc == cs[name]
        d1 == [doc EXCEPT !.no_of_attempts = @ + 1]
        d2 == IF d1.no_of_attempts >= HandlerMaxAttempts(cfg)
              THEN [d1 EXCEPT !.status = "Failed", !.closed_on = t]
              ELSE [d1 EXCEPT !.status = "Pending"]
    IN  Save(cs, name, d2, cfg, t)

\* _handle_command_build_failure: reload, count the attempt, log the error,
\* close at the maximum, save
_handle_command_build_failure(cs, name, cfg, t) ==
    LET doc == cs[name]
        d1 == [doc EXCEPT !.no_of_attempts = @ + 1,
                          !.device_response = Append(@, [at |-> t, text |-> "Build Failed"])]
        d2 == IF d1.no_of_attempts >= HandlerMaxAttempts(cfg)
              THEN [d1 EXCEPT !.status = "Failed", !.closed_on = t]
              ELSE [d1 EXCEPT !.status = "Pending"]
    IN  Save(cs, name, d2, cfg, t)

\* ------------------------------------------------------------------------
\* command_processor.py: process_device_command
\* ------------------------------------------------------------------------
PendingOf(cs, device_sn) ==
    {i \in 1..Len(cs) : cs[i].biometric_device = device_sn /\ cs[i].status = "Pending"}

\* a selection that takes the newest Pending command of the device
NextCommand_newest(cs, device_sn) ==
    IF PendingOf(cs, device_sn) = {} THEN 0
    ELSE CHOOSE i \in PendingOf(cs, device_sn) :
            \A j \in PendingOf(cs, device_sn) : cs[j].creation <= cs[i].creation

\* frappe.db.get_value(..., {"biometric_device": device_sn, "status": "Pending"},
\* "name", order_by="creation asc"); 0 when there is no such command
NextCommand(cs, device_sn) ==
    IF PendingOf(cs, device_sn) = {} THEN 0
    ELSE CHOOSE i \in PendingOf(cs, device_sn) :
            \A j \in PendingOf(cs, device_sn) : cs[i].creation <= cs[j].creation

\* a dispatch that counts the attempt on every Pending command of the device
CountAttempt_all(cs, name) ==
    [i \in 1..Len(cs) |->
        IF cs[i].biometric_device = cs[name].biometric_device /\ cs[i].status = "Pending"
        THEN [cs[i] EXCEPT !.no_of_attempts = @ + 1]
        ELSE cs[i]]

\* cmd_doc.no_of_attempts += 1
CountAttempt(cs, name) == [cs EXCEPT ![name].no_of_attempts = @ + 1]

\* result: the command table afterwards, the selected command (0: none)
\* and the payload returned (NoPayloadBuilt: None returned)
process_device_command(cs, us, device_sn, cfg, t) ==
    LET command_name == NextCommand(cs, device_sn)
    IN  IF command_name = 0
        THEN [cmds |-> cs, selected |-> 0, payload |-> NoPayloadBuilt]
        ELSE
            LET b == BuildByBrand(command_name, cs[command_name], us)
            IN  IF b.raised
                THEN [cmds |-> _handle_command_build_failure(cs, command_name, cfg, t),
                      selected |-> command_name, payload |-> NoPayloadBuilt]
                ELSE IF b.payload # NoPayloadBuilt
                THEN [cmds |-> Save(CountAttempt(cs, command_name), command_name,
                                    CountAttempt(cs, command_name)[command_name], cfg, t),
                      selected |-> command_name, payload |-> b.payload]
                ELSE [cmds |-> cs, selected |-> command_name, payload |-> NoPayloadBuilt]

\* ------------------------------------------------------------------------
\* The queue at rest, and its initial states
\* ------------------------------------------------------------------------
QueueIdle ==
    /\ cmds = <<>>
    /\ hasPending = [d \in DevIds |-> 0]
    /\ users = UserDocs
    /\ settings = [maximum_no_of_attempts_for_commands |-> 2, force_close_after |-> 2]
    /\ now = 0
    /\ lastOp = NoOp
    /\ qwk = [w \in Workers |-> IdleEnqueue]

\* no payload has been given to the codec
NotDecoded == [error |-> "not decoded", meta |-> <<>>, placeholders |-> <<>>,
               remaining |-> <<>>, segments |-> <<>>]

\* nothing has been inlined
NotInlined == <<>>

CodecIdle ==
    /\ raw = <<>>
    /\ decoded = NotDecoded
    /\ inlined = NotInlined

\* no check-in has been recorded
CheckinIdle == checkins = <<>>

AsmIdle ==
    /\ blockMap = <<>>
    /\ partial = <<>>
    /\ reply = NoReply
    /\ handed = NoPayload
    /\ reqLog = <<>>
    /\ wk = [w \in Workers |-> IdleWorker]
    /\ accLog = [k \in AllKeys |-> <<>>]

\* ------------------------------------------------------------------------
\* handle_request, header check and block assembly, as one sequential call.
\* Result: the new block map, the new files, the reply given by the block
\* assembly and the payload.  When the payload is complete it goes on to
\* decoding and to the handler of the request code, which gives the reply:
\* reply is NoReply then and payload is what decoding receives.
\* ------------------------------------------------------------------------
BlockAssembly(map, files, dev_id, request_code, blk_no, raw_data) ==
    LET last_blk == _get_last_block(map, dev_id, request_code)
    IN  IF request_code = "" \/ dev_id = "" THEN
            [map |-> map, files |-> files,
             reply |-> _fail("Missing request_code or dev_id"), payload |-> NoPayload]
        ELSE IF blk_no = 1 THEN
            LET f1 == RemoveFile(files, _partial_path(dev_id, request_code))
                m1 == _clear_sequence(map, dev_id, request_code)
                f2 == _append_block(f1, dev_id, request_code, raw_data)
                m2 == _set_last_block(m1, dev_id, request_code, 1)
            IN  [map |-> m2, files |-> f2, reply |-> _ok_after_block, payload |-> NoPayload]
        ELSE IF blk_no > 1 THEN
            IF SequenceMismatch(last_blk, blk_no)
            THEN [map |-> map, files |-> files,
                  reply |-> _fail("Block sequence mismatch"), payload |-> NoPayload]
            ELSE [map |-> _set_last_block(map, dev_id, request_code, blk_no),
                  files |-> _append_block(files, dev_id, request_code, raw_data),
                  reply |-> _ok_after_block, payload |-> NoPayload]
        ELSE IF SingleShot(last_blk)
            THEN [map |-> map, files |-> files, reply |-> NoReply, payload |-> raw_data]
            ELSE
                LET f1 == _append_block(files, dev_id, request_code, raw_data)
                    m1 == _set_last_block(map, dev_id, request_code, 0)
                    full_payload == _read_sequence(f1, dev_id, request_code)
                IN  IF full_payload = NoPayload
                    THEN [map |-> m1, files |-> f1,
                          reply |-> _fail("Unable to read spooled data"), payload |-> NoPayload]
                    ELSE [map |-> _clear_sequence(m1, dev_id, request_code), files |-> f1,
                          reply |-> NoReply, payload |-> full_payload]

AsmInit ==
    /\ AsmIdle
    /\ QueueIdle
    /\ CodecIdle
    /\ CheckinIdle
    /\ ToolIdle

HandleRequest(dev_id, request_code, blk_no, raw_data) ==
    LET r == BlockAssembly(blockMap, partial, dev_id, request_code, blk_no, raw_data)
    IN  /\ Len(reqLog) < MaxReqs
        /\ blockMap' = r.map
        /\ partial' = r.files
        /\ reply' = r.reply
        /\ handed' = r.payload
        /\ reqLog' = Append(reqLog, [dev_id |-> dev_id, request_code |-> request_code,
                                     blk_no |-> blk_no, raw_data |-> raw_data])
        /\ UNCHANGED <<wk, accLog>>
        /\ UNCHANGED queueVars
        /\ UNCHANGED codecVars
        /\ UNCHANGED checkinVars
        /\ UNCHANGED toolVars

AsmNext ==
    \E d \in DevIds, r \in ReqCodes, b \in BlkNos, c \in Chunks : HandleRequest(d, r, b, c)

SpecAsm == AsmInit /\ [][AsmNext]_vars

\* ------------------------------------------------------------------------
\* handle_request run by concurrent workers.  Each worker is one request in
\* its own process; the block map file and the partial files are the only
\* shared state and the code takes no lock on either.  One action is one
\* access to the shared storage: _set_last_block and _clear_sequence are a
\* load of the whole map followed by a save of the whole map.
\* ------------------------------------------------------------------------
Finish(w, rep, payload) ==
    /\ wk' = [wk EXCEPT ![w] = IdleWorker]
    /\ reply' = rep
    /\ handed' = payload

Goto(w, pc) == wk' = [wk EXCEPT ![w].pc = pc]

\* headers read, request accepted by a worker
WBegin(w, dev_id, request_code, blk_no, raw_data) ==
    /\ wk[w].pc = "idle"
    /\ Len(reqLog) < MaxConcReqs
    /\ wk' = [wk EXCEPT ![w] = [IdleWorker EXCEPT !.pc = "get_last", !.dev_id = dev_id,
                                  !.request_code = request_code, !.blk_no = blk_no,
                                  !.raw_data = raw_data]]
    /\ reqLog' = Append(reqLog, [dev_id |-> dev_id, request_code |-> request_code,
                                 blk_no |-> blk_no, raw_data |-> raw_data])
    /\ UNCHANGED <<blockMap, partial, reply, handed, accLog>>
    /\ UNCHANGED queueVars
    /\ UNCHANGED codecVars
    /\ UNCHANGED checkinVars
    /\ UNCHANGED toolVars

\* last_blk = _get_last_block(...) and the branch on blk_no
WGetLast(w) ==
    LET l == wk[w]
        last_blk == _get_last_block(blockMap, l.dev_id, l.request_code)
    IN  /\ l.pc = "get_last"
        /\ IF l.blk_no = 1 THEN
               /\ wk' = [wk EXCEPT ![w].last_blk = last_blk, ![w].pc = "start_remove"]
               /\ UNCHANGED <<reply, handed>>
           ELSE IF l.blk_no > 1 THEN
               IF SequenceMismatch(last_blk, l.blk_no)
               THEN Finish(w, _fail("Block sequence mismatch"), NoPayload)
               ELSE /\ wk' = [wk EXCEPT ![w].last_blk = last_blk, ![w].pc = "append"]
                    /\ UNCHANGED <<reply, handed>>
           ELSE IF SingleShot(last_blk)
               THEN Finish(w, NoReply, l.raw_data)
               ELSE /\ wk' = [wk EXCEPT ![w].last_blk = last_blk, ![w].pc = "append"]
                    /\ UNCHANGED <<reply, handed>>
        /\ UNCHANGED <<blockMap, partial, reqLog, accLog>>
        /\ UNCHANGED queueVars
        /\ UNCHANGED codecVars
        /\ UNCHANGED checkinVars
        /\ UNCHANGED toolVars

\* _start_sequence: os.remove of the partial file
WStartRemove(w) ==
    LET l == wk[w]
    IN  /\ l.pc = "start_remove"
        /\ partial' = RemoveFile(partial, _partial_path(l.dev_id, l.request_code))
        /\ accLog' = [accLog EXCEPT ![_seq_key(l.dev_id, l.request_code)] = <<>>]
        /\ Goto(w, "clear_load")
        /\ UNCHANGED <<blockMap, reply, handed, reqLog>>
        /\ UNCHANGED queueVars
        /\ UNCHANGED codecVars
        /\ UNCHANGED checkinVars
        /\ UNCHANGED toolVars

\* _clear_sequence: m = _load_block_map()
WClearLoad(w) ==
    /\ wk[w].pc = "clear_load"
    /\ wk' = [wk EXCEPT ![w].m = blockMap, ![w].pc = "clear_save"]
    /\ UNCHANGED <<blockMap, partial, reply, handed, reqLog, accLog>>
    /\ UNCHANGED queueVars
    /\ UNCHANGED codecVars
    /\ UNCHANGED checkinVars
    /\ UNCHANGED toolVars

\* _clear_sequence: m.pop(key); _save_block_map(m)
WClearSave(w) ==
    LET l == wk[w]
    IN  /\ l.pc = "clear_save"
        /\ blockMap' = MapPop(l.m, _seq_key(l.dev_id, l.request_code))
        /\ IF l.blk_no = 1
           THEN /\ Goto(w, "append")
                /\ UNCHANGED <<reply, handed>>
           ELSE Finish(w, NoReply, l.full_payload)
        /\ UNCHANGED <<partial, reqLog, accLog>>
        /\ UNCHANGED queueVars
        /\ UNCHANGED codecVars
        /\ UNCHANGED checkinVars
        /\ UNCHANGED toolVars

\* _append_block
WAppend(w) ==
    LET l == wk[w]
    IN  /\ l.pc = "append"
        /\ partial' = _append_block(partial, l.dev_id, l.request_code, l.raw_data)
        /\ accLog' = [accLog EXCEPT ![_seq_key(l.dev_id, l.request_code)] =
                          Append(@, [blk_no |-> l.blk_no, raw_data |-> l.raw_data])]
        /\ Goto(w, "set_load")
        /\ UNCHANGED <<blockMap, reply, handed, reqLog>>
        /\ UNCHANGED queueVars
        /\ UNCHANGED codecVars
        /\ UNCHANGED checkinVars
        /\ UNCHANGED toolVars

\* _set_last_block: m = _load_block_map()
WSetLoad(w) ==
    /\ wk[w].pc = "set_load"
    /\ wk' = [wk EXCEPT ![w].m = blockMap, ![w].pc = "set_save"]
    /\ UNCHANGED <<blockMap, partial, reply, handed, reqLog, accLog>>
    /\ UNCHANGED queueVars
    /\ UNCHANGED codecVars
    /\ UNCHANGED checkinVars
    /\ UNCHANGED toolVars

\* _set_last_block: m[key] = blk_no; _save_block_map(m)
WSetSave(w) ==
    LET l == wk[w]
    IN  /\ l.pc = "set_save"
        /\ blockMap' = MapSet(l.m, _seq_key(l.dev_id, l.request_code), l.blk_no)
        /\ IF l.blk_no = 0
           THEN /\ Goto(w, "read")
                /\ UNCHANGED <<reply, handed>>
           ELSE Finish(w, _ok_after_block, NoPayload)
        /\ UNCHANGED <<partial, reqLog, accLog>>
        /\ UNCHANGED queueVars
        /\ UNCHANGED codecVars
        /\ UNCHANGED checkinVars
        /\ UNCHANGED toolVars

\* full_payload = _read_sequence(...)
WRead(w) ==
    LET l == wk[w]
        full_payload == _read_sequence(partial, l.dev_id, l.request_code)
    IN  /\ l.pc = "read"
        /\ IF full_payload = NoPayload
           THEN Finish(w, _fail("Unable to read spooled data"), NoPayload)
           ELSE /\ wk' = [wk EXCEPT ![w].full_payload = full_payload, ![w].pc = "clear_load"]
                /\ UNCHANGED <<reply, handed>>
        /\ UNCHANGED <<blockMap, partial, reqLog, accLog>>
        /\ UNCHANGED queueVars
        /\ UNCHANGED codecVars
        /\ UNCHANGED checkinVars
        /\ UNCHANGED toolVars

AsmConcNext ==
    \E w \in Workers :
        \/ \E d \in DevIds, r \in ReqCodes, b \in BlkNos, c \in Chunks : WBegin(w, d, r, b, c)
        \/ WGetLast(w)
        \/ WStartRemove(w)
        \/ WClearLoad(w)
        \/ WClearSave(w)
        \/ WAppend(w)
        \/ WSetLoad(w)
        \/ WSetSave(w)
        \/ WRead(w)

SpecAsmConc == AsmInit /\ [][AsmConcNext]_vars

\* ------------------------------------------------------------------------
\* The command queue, one action per whole call
\* ------------------------------------------------------------------------
QueueInit ==
    /\ AsmIdle
    /\ CodecIdle
    /\ CheckinIdle
    /\ ToolIdle
    /\ cmds = <<>>
    /\ hasPending = [d \in DevIds |-> 0]
    /\ users = UserDocs
    /\ settings \in [maximum_no_of_attempts_for_commands : MaxAttemptsChoices,
                     force_close_after : ForceDaysChoices]
    /\ now = 0
    /\ lastOp = NoOp
    /\ qwk = [w \in Workers |-> IdleEnqueue]

AddCommand(device_id, user_id, brand, command_type) ==
    LET r == add_command(cmds, hasPending, device_id, user_id, brand, command_type,
                         settings, now)
    IN  /\ Len(cmds) < MaxCmds
        /\ cmds' = r.cmds
        /\ hasPending' = r.hasPending
        /\ lastOp' = [NoOp EXCEPT !.op = "add_command", !.device = device_id,
                                  !.user = user_id, !.brand = brand,
                                  !.command_type = command_type,
                                  !.created = (Len(r.cmds) > Len(cmds)),
                                  !.again = /\ lastOp.op = "add_command"
                                            /\ lastOp.device = device_id
                                            /\ lastOp.user = user_id
                                            /\ lastOp.brand = brand
                                            /\ lastOp.command_type = command_type]
        /\ UNCHANGED <<users, settings, now, qwk>>
        /\ UNCHANGED asmVars
        /\ UNCHANGED codecVars
        /\ UNCHANGED checkinVars
        /\ UNCHANGED toolVars

QueueGetUserInfo(dev_id, user_id) ==
    LET r == _queue_get_user_info(cmds, hasPending, dev_id, user_id, settings, now)
    IN  /\ Len(cmds) < MaxCmds
        /\ cmds' = r.cmds
        /\ hasPending' = r.hasPending
        /\ lastOp' = [NoOp EXCEPT !.op = "_queue_get_user_info", !.device = dev_id,
                                  !.user = user_id, !.brand = "EBKN",
                                  !.command_type = "Get Enroll Data",
                                  !.created = (Len(r.cmds) > Len(cmds))]
        /\ UNCHANGED <<users, settings, now, qwk>>
        /\ UNCHANGED asmVars
        /\ UNCHANGED codecVars
        /\ UNCHANGED checkinVars
        /\ UNCHANGED toolVars

\* the attempts counted so far on the first n commands
RECURSIVE TotalAttempts(_, _)
TotalAttempts(cs, n) == IF n = 0 THEN 0 ELSE cs[n].no_of_attempts + TotalAttempts(cs, n - 1)

ProcessDeviceCommand(device_sn) ==
    LET r == process_device_command(cmds, users, device_sn, settings, now)
    IN  /\ r.selected # 0 => TotalAttempts(cmds, Len(cmds)) < MaxPolls
        /\ cmds' = r.cmds
        /\ lastOp' = [NoOp EXCEPT !.op = "process_device_command", !.device = device_sn,
                                  !.selected = r.selected,
                                  !.shipped = (r.payload # NoPayloadBuilt),
                                  !.payload = r.payload]
        /\ UNCHANGED <<hasPending, users, settings, now, qwk>>
        /\ UNCHANGED asmVars
        /\ UNCHANGED codecVars
        /\ UNCHANGED checkinVars
        /\ UNCHANGED toolVars

QueueNext ==
    \/ \E d \in DevIds, u \in Users, t \in AddCommandTypes :
           AddCommand(d, u, BrandOfDevice[d], t)
    \/ \E d \in DevIds, u \in Users : QueueGetUserInfo(d, u)
    \/ \E d \in DevIds : ProcessDeviceCommand(d)

SpecQueue == QueueInit /\ [][QueueNext]_vars

\* ------------------------------------------------------------------------
\* add_command and _queue_get_user_info run by concurrent workers.  Each
\* call is a request in its own process and database transaction: the
\* existence test reads the committed table, the insert and its commit come
\* later, and nothing (no lock, no unique index on the four fields) ties
\* the two together.
\* ------------------------------------------------------------------------
EBegin(w, device_id, user_id, brand, command_type, status) ==
    /\ qwk[w].pc = "idle"
    /\ Len(cmds) < MaxCmds
    /\ qwk' = [qwk EXCEPT ![w] = [pc |-> "exists", device |-> device_id, user |-> user_id,
                                   brand |-> brand, command_type |-> command_type,
                                   status |-> status]]
    /\ UNCHANGED <<cmds, hasPending, users, settings, now, lastOp>>
    /\ UNCHANGED asmVars
    /\ UNCHANGED codecVars
    /\ UNCHANGED checkinVars
    /\ UNCHANGED toolVars

\* exists = frappe.db.exists(...); if exists: return
EExists(w) ==
    LET l == qwk[w]
    IN  /\ l.pc = "exists"
        /\ IF Exists(cmds, l.device, l.user, l.brand, l.command_type)
           THEN qwk' = [qwk EXCEPT ![w] = IdleEnqueue]
           ELSE qwk' = [qwk EXCEPT ![w].pc = "insert"]
        /\ UNCHANGED <<cmds, hasPending, users, settings, now, lastOp>>
        /\ UNCHANGED asmVars
        /\ UNCHANGED codecVars
        /\ UNCHANGED checkinVars
        /\ UNCHANGED toolVars

\* cmd.insert(ignore_permissions=True); frappe.db.commit()
EInsert(w) ==
    LET l == qwk[w]
        r == Insert(cmds, hasPending, l.device, l.user, l.brand, l.command_type, l.status,
                    settings, now)
    IN  /\ l.pc = "insert"
        /\ cmds' = r.cmds
        /\ hasPending' = r.hasPending
        /\ qwk' = [qwk EXCEPT ![w] = IdleEnqueue]
        /\ UNCHANGED <<users, settings, now, lastOp>>
        /\ UNCHANGED asmVars
        /\ UNCHANGED codecVars
        /\ UNCHANGED checkinVars
        /\ UNCHANGED toolVars

EnqueueConcNext ==
    \E w \in Workers :
        \/ \E d \in DevIds, u \in Users, t \in AddCommandTypes :
               EBegin(w, d, u, BrandOfDevice[d], t, "Pending")
        \/ \E d \in DevIds, u \in Users :
               EBegin(w, d, u, "EBKN", "Get Enroll Data", StatusDefault)
        \/ EExists(w)
        \/ EInsert(w)

SpecEnqueueConc == QueueInit /\ [][EnqueueConcNext]_vars

\* ------------------------------------------------------------------------
\* The acknowledgement handlers: ebkn_processor._handle_send_cmd_result and
\* zkteco_processor._handle_devicecmd
\* ------------------------------------------------------------------------
MaxTries == 3
MaxLog == 2
MaxDays == 2

\* headers.get(...) of a header the request does not carry
NoHeader == "none"

\* the blk_no header of a request that reaches a handler: block assembly
\* answers the blocks 1, 2, ... itself and hands over only a request without
\* the header or with the closing block number
BlkHeaders == {NoHeader, "0"}

\* the cmd_return_code header, upper-cased
ReturnCodes == {"OK", "ERROR"}

\* the Return field of a devicecmd line
ZkReturns == {"0", "-1"}

\* int(blk_no_raw): the number whose decimal text the header is
IntOfHeader(h) == CHOOSE n \in BlkNos : ToString(n) = h

\* blk_no_raw == 0: a header text compared with the integer 0
HeaderEqualsZero(h) == FALSE

\* an acknowledgement that counts an attempt whatever it carries
BumpsAttempt_always(blk_no_raw, cmd_return_code) == TRUE

\* "bump attempts": the condition of the increment
BumpsAttempt(blk_no_raw, cmd_return_code) ==
    \/ blk_no_raw = NoHeader
    \/ (blk_no_raw # NoHeader /\ cmd_return_code # "OK")
    \/ (HeaderEqualsZero(blk_no_raw) /\ cmd_return_code = "OK")

\* _handle_send_cmd_result, the update of the command table: the document is
\* fetched by trans_id alone (0: header absent or no such document, nothing
\* is updated), attempts are bumped, the log line is appended, an OK either
\* notes the block or closes the command, and the document is saved
_handle_send_cmd_result(cs, trans_id, cmd_return_code, blk_no_raw, cfg, t) ==
    IF trans_id \notin 1..Len(cs) THEN cs
    ELSE
        LET doc == cs[trans_id]
            d1 == IF BumpsAttempt(blk_no_raw, cmd_return_code)
                  THEN [doc EXCEPT !.no_of_attempts = @ + 1]
                  ELSE doc
            d2 == [d1 EXCEPT !.device_response =
                                 Append(@, [at |-> t, text |-> cmd_return_code])]
            d3 == IF cmd_return_code = "OK"
                  THEN IF blk_no_raw # NoHeader
                       THEN [d2 EXCEPT !.last_sent_data_block = IntOfHeader(blk_no_raw)]
                       ELSE [d2 EXCEPT !.status = "Success", !.closed_on = t]
                  ELSE d2
        IN  Save(cs, trans_id, d3, cfg, t)

\* cmd_doc.status = "Success" if return_code == "0" else "Failed";
\* cmd_doc.closed_on = datetime.now()
ZkReplyStatus(doc, return_code, t) ==
    [doc EXCEPT !.status = IF return_code = "0" THEN "Success" ELSE "Failed",
                !.closed_on = t]

\* _handle_devicecmd for one reply line "ID=<cmd_id>&Return=<return_code>":
\* the line is appended to the response text as it came, the status and the
\* closed time are set from the return code, and the document is saved
_handle_devicecmd(cs, cmd_id, return_code, cfg, t) ==
    IF cmd_id \notin 1..Len(cs) THEN cs
    ELSE
        LET doc == cs[cmd_id]
            d1 == [doc EXCEPT !.device_response =
                                  Append(@, [at |-> None, text |-> return_code])]
        IN  Save(cs, cmd_id, ZkReplyStatus(d1, return_code, t), cfg, t)

\* ------------------------------------------------------------------------
\* The life of one command after its enqueue: polls of both vendors,
\* acknowledgements of both vendors and the passing of time, one action per
\* whole call.  The command is an enrolment: the one of U1 builds, the one
\* of U2 has no stored template and its build fails.  (The order in which
\* several commands of a device are served is SpecQueue's subject.)
\* ------------------------------------------------------------------------
\* the response lines logged so far on the first n commands
RECURSIVE TotalLog(_, _)
TotalLog(cs, n) == IF n = 0 THEN 0 ELSE Len(cs[n].device_response) + TotalLog(cs, n - 1)

NoLifeOp == [op |-> "", device |-> "", name |-> 0, return_code |-> "",
             blk_no |-> NoHeader, shipped |-> FALSE]

\* one command has been enqueued, at time 0, on an empty table
LifeInit ==
    /\ AsmIdle
    /\ CodecIdle
    /\ CheckinIdle
    /\ ToolIdle
    /\ users = UserDocs
    /\ settings \in [maximum_no_of_attempts_for_commands : MaxAttemptsChoices,
                     force_close_after : ForceDaysChoices]
    /\ now = 0
    /\ \E d \in DevIds, u \in Users :
           LET r == add_command(<<>>, [x \in DevIds |-> 0], d, u, BrandOfDevice[d],
                                "Enroll User", settings, now)
           IN  /\ cmds = r.cmds
               /\ hasPending = r.hasPending
    /\ lastOp = NoLifeOp
    /\ qwk = [w \in Workers |-> IdleEnqueue]

\* GET /iclock/getrequest and receive_cmd: process_device_command(device_sn)
LifePoll(device_sn) ==
    LET r == process_device_command(cmds, users, device_sn, settings, now)
    IN  /\ r.selected # 0 => TotalAttempts(cmds, Len(cmds)) < MaxTries
        /\ cmds' = r.cmds
        /\ lastOp' = [NoLifeOp EXCEPT !.op = "process_device_command",
                                      !.device = device_sn, !.name = r.selected,
                                      !.shipped = (r.payload # NoPayloadBuilt)]
        /\ UNCHANGED <<hasPending, users, settings, now, qwk>>
        /\ UNCHANGED asmVars
        /\ UNCHANGED codecVars
        /\ UNCHANGED checkinVars
        /\ UNCHANGED toolVars

\* send_cmd_result from any device, naming any command
LifeAckEbkn(trans_id, cmd_return_code, blk_no_raw) ==
    /\ trans_id \in 1..Len(cmds) =>
           /\ TotalAttempts(cmds, Len(cmds)) < MaxTries
           /\ TotalLog(cmds, Len(cmds)) < MaxLog
    /\ cmds' = _handle_send_cmd_result(cmds, trans_id, cmd_return_code, blk_no_raw,
                                       settings, now)
    /\ lastOp' = [NoLifeOp EXCEPT !.op = "send_cmd_result", !.name = trans_id,
                                  !.return_code = cmd_return_code,
                                  !.blk_no = blk_no_raw]
    /\ UNCHANGED <<hasPending, users, settings, now, qwk>>
    /\ UNCHANGED asmVars
    /\ UNCHANGED codecVars
    /\ UNCHANGED checkinVars
    /\ UNCHANGED toolVars

\* POST /iclock/devicecmd with one reply line, naming any command
LifeAckZk(cmd_id, return_code) ==
    /\ cmd_id \in 1..Len(cmds) => TotalLog(cmds, Len(cmds)) < MaxLog
    /\ cmds' = _handle_devicecmd(cmds, cmd_id, return_code, settings, now)
    /\ lastOp' = [NoLifeOp EXCEPT !.op = "devicecmd", !.name = cmd_id,
                                  !.return_code = return_code]
    /\ UNCHANGED <<hasPending, users, settings, now, qwk>>
    /\ UNCHANGED asmVars
    /\ UNCHANGED codecVars
    /\ UNCHANGED checkinVars
    /\ UNCHANGED toolVars

\* a day passes
LifeTick ==
    /\ now < MaxDays
    /\ now' = now + 1
    /\ lastOp' = [NoLifeOp EXCEPT !.op = "tick"]
    /\ UNCHANGED <<cmds, hasPending, users, settings, qwk>>
    /\ UNCHANGED asmVars
    /\ UNCHANGED codecVars
    /\ UNCHANGED checkinVars
    /\ UNCHANGED toolVars

LifeNext ==
    \/ \E d \in DevIds : LifePoll(d)
    \/ \E n \in 0..Len(cmds), c \in ReturnCodes, b \in BlkHeaders : LifeAckEbkn(n, c, b)
    \/ \E n \in 0..Len(cmds), c \in ZkReturns : LifeAckZk(n, c)
    \/ LifeTick

SpecLife == LifeInit /\ [][LifeNext]_vars

\* ------------------------------------------------------------------------
\* Fair polling: two commands are queued on one device, every device keeps
\* polling, time passes, and no acknowledgement ever arrives.  Attempt
\* counts above MaxTries are not told apart: the code compares the count
\* with the configured maximum and with the default of the failure handler
\* only, and both are at most MaxTries.
\* ------------------------------------------------------------------------
LifeForceDays == {0, 2}

\* the command types the builders know
Kinds == {"Enroll User", "Delete User", "Get Enroll Data"}

Saturated(cs) ==
    [i \in 1..Len(cs) |->
        IF cs[i].no_of_attempts > MaxTries
        THEN [cs[i] EXCEPT !.no_of_attempts = MaxTries]
        ELSE cs[i]]

FairInit ==
    /\ AsmIdle
    /\ CodecIdle
    /\ CheckinIdle
    /\ ToolIdle
    /\ users = UserDocs
    /\ settings \in [maximum_no_of_attempts_for_commands : MaxAttemptsChoices,
                     force_close_after : LifeForceDays]
    /\ now = 0
    /\ \E d \in DevIds, u1 \in Users, u2 \in Users, k1 \in Kinds, k2 \in Kinds :
           LET r1 == add_command(<<>>, [x \in DevIds |-> 0], d, u1, BrandOfDevice[d],
                                 k1, settings, now)
               r2 == add_command(r1.cmds, r1.hasPending, d, u2, BrandOfDevice[d],
                                 k2, settings, now)
           IN  /\ <<u1, k1>> # <<u2, k2>>
               /\ cmds = r2.cmds
               /\ hasPending = r2.hasPending
    /\ lastOp = NoLifeOp
    /\ qwk = [w \in Workers |-> IdleEnqueue]

FairPoll(device_sn) ==
    LET r == process_device_command(cmds, users, device_sn, settings, now)
    IN  /\ cmds' = Saturated(r.cmds)
        /\ lastOp' = [NoLifeOp EXCEPT !.op = "process_device_command",
                                      !.device = device_sn, !.name = r.selected,
                                      !.shipped = (r.payload # NoPayloadBuilt)]
        /\ UNCHANGED <<hasPending, users, settings, now, qwk>>
        /\ UNCHANGED asmVars
        /\ UNCHANGED codecVars
        /\ UNCHANGED checkinVars
        /\ UNCHANGED toolVars

FairNext ==
    \/ \E d \in DevIds : FairPoll(d)
    \/ LifeTick

\* every device polls again and again, and the clock advances
SpecLifeFair ==
    /\ FairInit
    /\ [][FairNext]_vars
    /\ \A d \in DevIds : WF_vars(FairPoll(d))
    /\ WF_vars(LifeTick)


\* ------------------------------------------------------------------------
\* The builders on any command document: one command has been enqueued
\* through add_command, which takes the brand and the command type as they
\* are given, for a user that has a document or has none; the device polls
\* and time passes.
\* ------------------------------------------------------------------------
\* U3 has no Biometric Device User document
BuildUsers == Users \cup {"U3"}

\* the brands with a builder, and one that has a blob field and no builder
BuildBrands == {"EBKN", "ZKTeco", "Hikvision", "Suprema"}

\* the command types the builders know, and one they do not
BuildKinds == Kinds \cup {"Sync Time"}

BuildInit ==
    /\ AsmIdle
    /\ CodecIdle
    /\ CheckinIdle
    /\ ToolIdle
    /\ users = UserDocs
    /\ settings \in [maximum_no_of_attempts_for_commands : MaxAttemptsChoices,
                     force_close_after : ForceDaysChoices]
    /\ now = 0
    /\ \E d \in DevIds, u \in BuildUsers, b \in BuildBrands, k \in BuildKinds :
           LET r == add_command(<<>>, [x \in DevIds |-> 0], d, u, b, k, settings, now)
           IN  /\ cmds = r.cmds
               /\ hasPending = r.hasPending
    /\ lastOp = NoOp
    /\ qwk = [w \in Workers |-> IdleEnqueue]

\* process_device_command(device_sn), as either poll handler calls it
BuildPoll(device_sn) ==
    LET r == process_device_command(cmds, users, device_sn, settings, now)
    IN  /\ r.selected # 0 => TotalAttempts(cmds, Len(cmds)) < MaxTries
        /\ cmds' = r.cmds
        /\ lastOp' = [NoOp EXCEPT !.op = "process_device_command", !.device = device_sn,
                                  !.selected = r.selected,
                                  !.shipped = (r.payload # NoPayloadBuilt),
                                  !.payload = r.payload]
        /\ UNCHANGED <<hasPending, users, settings, now, qwk>>
        /\ UNCHANGED asmVars
        /\ UNCHANGED codecVars
        /\ UNCHANGED checkinVars
        /\ UNCHANGED toolVars

\* a day passes
BuildTick ==
    /\ now < MaxDays
    /\ now' = now + 1
    /\ lastOp' = [NoOp EXCEPT !.op = "tick"]
    /\ UNCHANGED <<cmds, hasPending, users, settings, qwk>>
    /\ UNCHANGED asmVars
    /\ UNCHANGED codecVars
    /\ UNCHANGED checkinVars
    /\ UNCHANGED toolVars

BuildNext ==
    \/ \E d \in DevIds : BuildPoll(d)
    \/ BuildTick

SpecBuild == BuildInit /\ [][BuildNext]_vars

\* ------------------------------------------------------------------------
\* ebkn_processor.py: _extract_json_and_bins.  A payload is a sequence of
\* bytes.  Inside the envelope one byte stands for a whole ASCII member of
\* the JSON object: "1", "2", "3" for a member whose value is the
\* placeholder string BIN_1, BIN_2, BIN_3, "s" for a member with an
\* ordinary ASCII value; 195 169 are the two bytes of one non-ASCII
\* character of a string value; a nested pair of braces is a member whose
\* value is an object.  json.loads is taken to accept every such envelope.
\* Positions count from 1, and 0 stands for Python's -1.
\* ------------------------------------------------------------------------
MaxItems == 3
MaxBin == 11

LBrace == 123
RBrace == 125
Ph1 == 49
Ph2 == 50
Ph3 == 51
Plain == 115
Lead2 == 195
Cont == 169

\* U+FFFD, what errors="replace" puts for a byte that is not valid UTF-8
Replacement == 65533

\* raw.decode("utf-8", errors="replace") for ASCII bytes and two-byte
\* sequences: the characters of the text, one for a byte below 128, one for
\* a lead byte with its continuation byte, U+FFFD for any other byte
RECURSIVE Utf8Decode(_)
Utf8Decode(bs) ==
    IF bs = <<>> THEN <<>>
    ELSE IF Head(bs) < 128 THEN <<Head(bs)>> \o Utf8Decode(Tail(bs))
    ELSE IF /\ Head(bs) \in 194..223
            /\ Len(bs) >= 2
            /\ bs[2] \in 128..191
         THEN <<(Head(bs) - 192) * 64 + (bs[2] - 128)>>
                  \o Utf8Decode(SubSeq(bs, 3, Len(bs)))
    ELSE <<Replacement>> \o Utf8Decode(Tail(bs))

\* text.find(ch) from position idx on
RECURSIVE Find(_, _, _)
Find(text, ch, idx) ==
    IF idx > Len(text) THEN 0
    ELSE IF text[idx] = ch THEN idx
    ELSE Find(text, ch, idx + 1)

\* the loop over text[start:]: the position of the brace that brings the
\* depth back to 0
RECURSIVE MatchingBrace(_, _, _)
MatchingBrace(text, idx, brace) ==
    IF idx > Len(text) THEN 0
    ELSE IF text[idx] = LBrace THEN MatchingBrace(text, idx + 1, brace + 1)
    ELSE IF text[idx] = RBrace
         THEN IF brace - 1 = 0 THEN idx ELSE MatchingBrace(text, idx + 1, brace - 1)
    ELSE MatchingBrace(text, idx + 1, brace)

\* the string value a member stands for, "" when it is no placeholder
PlaceholderOf(ch) ==
    IF ch = Ph1 THEN "BIN_1"
    ELSE IF ch = Ph2 THEN "BIN_2"
    ELSE IF ch = Ph3 THEN "BIN_3"
    ELSE ""

\* _recurse(meta): the strings starting with BIN_, in discovery order
RECURSIVE CollectPlaceholders(_)
CollectPlaceholders(json_blob) ==
    IF json_blob = <<>> THEN <<>>
    ELSE IF PlaceholderOf(Head(json_blob)) # ""
         THEN <<PlaceholderOf(Head(json_blob))>> \o CollectPlaceholders(Tail(json_blob))
    ELSE CollectPlaceholders(Tail(json_blob))

\* a split in which every segment, the last too, has seg_size bytes
Blob_even(remaining, n, idx) ==
    SubSeq(remaining, (idx - 1) * (Len(remaining) \div n) + 1,
           idx * (Len(remaining) \div n))

\* the blob read for the idx-th of n placeholders: stream.read(seg_size),
\* and stream.read() for the last
Blob(remaining, n, idx) ==
    LET seg_size == Len(remaining) \div n
    IN  IF idx = n
        THEN SubSeq(remaining, (idx - 1) * seg_size + 1, Len(remaining))
        ELSE SubSeq(remaining, (idx - 1) * seg_size + 1, idx * seg_size)

\* segments[ph] = blob on a dict kept as the sequence of its items: a new
\* key goes to the end, a key already there keeps its place and takes the
\* new value
DictSet(items, ph, blob) ==
    IF \E k \in 1..Len(items) : items[k].ph = ph
    THEN [k \in 1..Len(items) |->
             IF items[k].ph = ph THEN [ph |-> ph, blob |-> blob] ELSE items[k]]
    ELSE Append(items, [ph |-> ph, blob |-> blob])

\* the dict after the first idx placeholders
RECURSIVE SegmentsUpTo(_, _, _)
SegmentsUpTo(placeholders, remaining, idx) ==
    IF idx = 0 THEN <<>>
    ELSE DictSet(SegmentsUpTo(placeholders, remaining, idx - 1),
                 placeholders[idx], Blob(remaining, Len(placeholders), idx))

Raises(msg) == [error |-> msg, meta |-> <<>>, placeholders |-> <<>>,
                remaining |-> <<>>, segments |-> <<>>]

\* result: the error raised ("": none), meta and segments as returned, and
\* the locals placeholders and remaining
_extract_json_and_bins(bs) ==
    LET text == Utf8Decode(bs)
        start == Find(text, LBrace, 1)
        end == MatchingBrace(text, start, 0)
    IN  IF start = 0 THEN Raises("no JSON opening brace found")
        ELSE IF end = 0 THEN Raises("unbalanced JSON braces")
        ELSE
            LET json_blob == SubSeq(text, start, end)
                remaining == SubSeq(bs, end + 1, Len(bs))
                placeholders == CollectPlaceholders(json_blob)
            IN  [error |-> "", meta |-> json_blob, placeholders |-> placeholders,
                 remaining |-> remaining,
                 segments |-> SegmentsUpTo(placeholders, remaining, Len(placeholders))]

\* obj in bin_map
InDict(items, ph) == \E k \in 1..Len(items) : items[k].ph = ph

\* bin_map[obj]
DictGet(items, ph) == items[CHOOSE k \in 1..Len(items) : items[k].ph = ph].blob

\* an inlining that leaves every placeholder where it is
_json_with_inlined_bins_kept(meta, bin_map) ==
    [k \in 1..Len(meta) |-> [replaced |-> FALSE, text |-> <<meta[k]>>]]

\* _json_with_inlined_bins: the tree with every string that is a key of
\* bin_map replaced by the base64 text of its blob; a member is given as
\* its text and whether it was replaced
_json_with_inlined_bins(meta, bin_map) ==
    [k \in 1..Len(meta) |->
        IF PlaceholderOf(meta[k]) # "" /\ InDict(bin_map, PlaceholderOf(meta[k]))
        THEN [replaced |-> TRUE,
              text |-> b64encode(DictGet(bin_map, PlaceholderOf(meta[k])))]
        ELSE [replaced |-> FALSE, text |-> <<meta[k]>>]]

\* ------------------------------------------------------------------------
\* The codec applied to one payload
\* ------------------------------------------------------------------------
\* what may stand between the braces: the members, a two-byte character, a
\* nested object holding a placeholder
Items == {<<Ph1>>, <<Ph2>>, <<Ph3>>, <<Plain>>, <<Lead2, Cont>>, <<LBrace, Ph2, RBrace>>}

RECURSIVE ItemLists(_)
ItemLists(n) ==
    IF n = 0 THEN {<<>>}
    ELSE ItemLists(n - 1) \cup
         {l \o it : l \in ItemLists(n - 1), it \in Items}

\* complete envelopes, envelopes cut before the closing brace, and bodies
\* without any brace
Envelopes ==
    {<<LBrace>> \o l \o <<RBrace>> : l \in ItemLists(MaxItems)}
        \cup {<<LBrace, Plain>>, <<Plain>>}

\* bytes ahead of the envelope: none, an ASCII byte, a two-byte character
Prefixes == {<<>>, <<7>>, <<Lead2, Cont>>}

\* the trailing binary data: the bytes 1 .. L
Binaries == {[i \in 1..L |-> i] : L \in 0..MaxBin}

CodecInputs == {p \o e \o b : p \in Prefixes, e \in Envelopes, b \in Binaries}

CodecInit ==
    /\ AsmIdle
    /\ QueueIdle
    /\ raw \in CodecInputs
    /\ decoded = NotDecoded
    /\ inlined = NotInlined
    /\ CheckinIdle
    /\ ToolIdle

\* handle_request: meta, bins = _extract_json_and_bins(full_payload) and
\* meta = _json_with_inlined_bins(meta, bins), where the error raised by
\* the first is caught and answered
ExtractJsonAndBins ==
    /\ decoded = NotDecoded
    /\ decoded' = _extract_json_and_bins(raw)
    /\ inlined' = IF decoded'.error = ""
                  THEN _json_with_inlined_bins(decoded'.meta, decoded'.segments)
                  ELSE NotInlined
    /\ UNCHANGED raw
    /\ UNCHANGED asmVars
    /\ UNCHANGED queueVars
    /\ UNCHANGED checkinVars
    /\ UNCHANGED toolVars

CodecNext == ExtractJsonAndBins

SpecCodec == CodecInit /\ [][CodecNext]_vars


\* ------------------------------------------------------------------------
\* ebkn_processor.py: the replies and the outbound body
\* ------------------------------------------------------------------------
\* reply_response_code: the status is 200 whatever the response code; the
\* transaction id "0" is 0
reply_response_code(response_code, trans_id, cmd_code, body) ==
    [body |-> body, status |-> 200, response_code |-> response_code,
     trans_id |-> trans_id, cmd_code |-> cmd_code]

\* s.encode("utf-8") for characters below U+0800
RECURSIVE Utf8Encode(_)
Utf8Encode(chars) ==
    IF chars = <<>> THEN <<>>
    ELSE IF Head(chars) < 128 THEN <<Head(chars)>> \o Utf8Encode(Tail(chars))
    ELSE <<192 + (Head(chars) \div 64), 128 + (Head(chars) % 64)>>
             \o Utf8Encode(Tail(chars))

\* struct.pack("<I", n): four bytes, the lowest first
PackLE32(n) ==
    <<n % 256, (n \div 256) % 256, (n \div 65536) % 256, (n \div 16777216) % 256>>

\* a buffer that is the payload alone
create_bs_comm_buffer_bare(payload) == payload

\* create_bs_comm_buffer: the length of payload and NUL, the payload, NUL
create_bs_comm_buffer(payload) ==
    PackLE32(Len(payload) + 1) \o payload \o <<0>>

\* the body of a payload that has none: cmd.get("body") is None
NoBody == [type |-> "none", val |-> <<>>]

\* a formatter that wraps bytes as it wraps a str
_format_cmd_body_wrapping(body) ==
    IF body.type = "none" THEN <<>>
    ELSE IF body.type = "bytes" THEN create_bs_comm_buffer(body.val)
    ELSE create_bs_comm_buffer(Utf8Encode(body.val))

\* _format_cmd_body: nothing for None, bytes as they are, a str encoded and
\* wrapped
_format_cmd_body(body) ==
    IF body.type = "none" THEN <<>>
    ELSE IF body.type = "bytes" THEN body.val
    ELSE create_bs_comm_buffer(Utf8Encode(body.val))

\* ------------------------------------------------------------------------
\* ebkn_processor.py: the request handlers.  A collaborator may fail during
\* a request: "lookup" is a failure of the first read the handler makes
\* (site, command or user lookup), "storage" a failure of every write.
\* The result of a handler: the tables afterwards, the reply, whether an
\* exception left the handler, and the command selected and payload built
\* by a poll.
\* ------------------------------------------------------------------------
Faults == {"none", "lookup", "storage"}

Result(cs, hp, us, ck, rep) ==
    [cmds |-> cs, hasPending |-> hp, users |-> us, checkins |-> ck, reply |-> rep,
     raised |-> FALSE, selected |-> 0, payload |-> NoPayloadBuilt]

\* the envelope has the members a handler reads: user_id (that of U1),
\* io_time and io_mode
HasUserId(meta) == \E k \in 1..Len(meta) : meta[k] = Plain

\* the user the envelope names
EnvelopeUser == "U1"

\* _handle_realtime_glog: create_employee_checkin gives False on any
\* failure and True, with nothing inserted, for a check-in already there
_handle_realtime_glog(cs, hp, us, ck, meta, dev_id, t, fault) ==
    IF ~HasUserId(meta) THEN Result(cs, hp, us, ck, _fail("realtime_glog error"))
    ELSE IF fault # "none" THEN Result(cs, hp, us, ck, _fail("check-in failed"))
    ELSE
        LET checkin == [employee |-> EnvelopeUser, time |-> t, device_id |-> dev_id]
        IN  IF \E k \in 1..Len(ck) : ck[k].employee = EnvelopeUser /\ ck[k].time = t
            THEN Result(cs, hp, us, ck, _ok_after_block)
            ELSE Result(cs, hp, us, Append(ck, checkin), _ok_after_block)

\* the result of a handler that left the tables of s
Stored(s, ck, rep) == Result(s.cmds, s.hasPending, s.users, ck, rep)

\* the devices of the site: both are enabled
RegisteredDevices == [d \in DevIds |-> [brand |-> BrandOfDevice[d], disabled |-> 0]]

\* _handle_realtime_enroll_data: the user document gets a row for the
\* device, and a Get Enroll Data command is queued
_handle_realtime_enroll_data(cs, hp, us, ck, meta, dev_id, cfg, t, fault) ==
    IF ~HasUserId(meta) THEN Result(cs, hp, us, ck, _fail("user_id missing"))
    ELSE IF fault # "none" THEN Result(cs, hp, us, ck, _fail("realtime_enroll error"))
    ELSE
        Stored(RealtimeEnroll([cmds |-> cs, hasPending |-> hp], us, dev_id,
                              us[EnvelopeUser].user_id, RegisteredDevices, cfg, t),
               ck, _ok_after_block)

\* the entry of the device in the device-to-site map
get_site_for_device(hp, dev_id) == [has_pending_command |-> hp[dev_id]]

\* _handle_receive_cmd once process_device_command has given r: the reply
\* made of the payload.  The payload of a ZKTeco command is a str, and
\* cmd.get raises on it; that of a Hikvision command has no body.
Shipped(r, cs, hp, us, ck, trans_id) ==
    [cmds |-> r.cmds, hasPending |-> hp, users |-> us, checkins |-> ck,
     reply |-> IF r.payload = NoPayloadBuilt
               THEN reply_response_code("OK", trans_id, "", <<>>)
               ELSE IF cs[r.selected].brand = "EBKN"
               THEN reply_response_code("OK", r.payload.trans_id, r.payload.cmd_code,
                                        _format_cmd_body(r.payload.body))
               ELSE IF cs[r.selected].brand = "ZKTeco"
               THEN reply_response_code("ERROR", 0, "", <<>>)
               ELSE reply_response_code("OK", trans_id, "", _format_cmd_body(NoBody)),
     raised |-> FALSE, selected |-> r.selected, payload |-> r.payload]

\* _handle_receive_cmd.  With the storage failing, the save of the dispatch
\* and the save of the failure handler both fail and nothing is returned.
_handle_receive_cmd(cs, hp, us, ck, dev_id, trans_id, cfg, t, fault) ==
    IF fault = "lookup"
    THEN Result(cs, hp, us, ck, reply_response_code("ERROR", 0, "", <<>>))
    ELSE IF get_site_for_device(hp, dev_id).has_pending_command = 0
    THEN Result(cs, hp, us, ck, reply_response_code("OK", trans_id, "", <<>>))
    ELSE IF fault = "storage"
    THEN [Result(cs, hp, us, ck, reply_response_code("OK", trans_id, "", <<>>))
             EXCEPT !.selected = NextCommand(cs, dev_id)]
    ELSE Shipped(process_device_command(cs, us, dev_id, cfg, t), cs, hp, us, ck, trans_id)

\* a result handler that lets the error of a missing document leave it
SendCmdResult_unguarded(cs, hp, us, ck, meta, full_payload, dev_id, trans_id, cmd_return_code, blk_no_raw, cfg, t, fault) ==
    IF fault = "lookup" \/ trans_id \notin 1..Len(cs)
    THEN [Result(cs, hp, us, ck, NoReply) EXCEPT !.raised = TRUE]
    ELSE Result(_handle_send_cmd_result(cs, trans_id, cmd_return_code, blk_no_raw, cfg, t),
                hp, us, ck, reply_response_code("OK", trans_id, "", <<>>))

\* _handle_send_cmd_result as a handler: a failing lookup leaves the handler
\* as an exception, a command that does not exist is acknowledged, a failing
\* update is rolled back and acknowledged; the blob of a finished
\* Get Enroll Data is stored after the command is committed
SendCmdResult(cs, hp, us, ck, meta, full_payload, dev_id, trans_id, cmd_return_code, blk_no_raw, cfg, t, fault) ==
    IF fault = "lookup"
    THEN [Result(cs, hp, us, ck, NoReply) EXCEPT !.raised = TRUE]
    ELSE IF trans_id \notin 1..Len(cs)
    THEN Result(cs, hp, us, ck, reply_response_code("OK", trans_id, "", <<>>))
    ELSE IF fault = "storage"
    THEN Result(cs, hp, us, ck, reply_response_code("OK", trans_id, "", <<>>))
    ELSE
        Stored(IF /\ cs[trans_id].command_type = "Get Enroll Data"
                  /\ cmd_return_code = "OK"
                  /\ blk_no_raw \in {NoHeader, "0"}
                  /\ HasUserId(meta)
               THEN _store_get_user_info_blob(
                        [cmds |-> _handle_send_cmd_result(cs, trans_id, cmd_return_code,
                                                          blk_no_raw, cfg, t),
                         hasPending |-> hp],
                        us, dev_id, EnvelopeUser, full_payload, RegisteredDevices, cfg, t)
               ELSE [users |-> us, hasPending |-> hp,
                     cmds |-> _handle_send_cmd_result(cs, trans_id, cmd_return_code,
                                                      blk_no_raw, cfg, t)],
               ck, reply_response_code("OK", trans_id, "", <<>>))

\* ------------------------------------------------------------------------
\* ebkn_processor.py: handle_request, whole: header check, block assembly,
\* decoding, routing, and the except clause around all of it
\* ------------------------------------------------------------------------
REQ_REALTIME_ENROLL == "realtime_enroll_data"
REQ_RECV_CMD == "receive_cmd"
REQ_SEND_CMD_RESULT == "send_cmd_result"

\* the request codes with a handler
REQUEST_ROUTER ==
    {REQ_REALTIME_GLOG, REQ_REALTIME_ENROLL, REQ_RECV_CMD, REQ_SEND_CMD_RESULT}

\* a decoder that takes a payload without a complete envelope for an empty
\* envelope
_extract_json_and_bins_lenient(bs) ==
    [error |-> "", meta |-> <<LBrace, RBrace>>, placeholders |-> <<>>,
     remaining |-> <<>>, segments |-> <<>>]

\* the decoding step of handle_request
Decode(bs) == _extract_json_and_bins(bs)

\* what a request leaves besides the result of its handler: the handler
\* called ("": none), the state of the block assembly, the payload given to
\* decoding and what decoding and inlining gave
NotRouted(a) ==
    [handler |-> "", map |-> a.map, files |-> a.files, full_payload |-> a.payload,
     decoded |-> NotDecoded, inlined |-> NotInlined]

\* handle_request from the routing on.  r is the result of the handler of
\* the request code; an exception that leaves the handler is caught by the
\* except clause
Route(r, a, d, cs, hp, us, ck, request_code) ==
    IF request_code \notin REQUEST_ROUTER
    THEN [res |-> Result(cs, hp, us, ck, _fail("Unsupported request_code")),
          at |-> [NotRouted(a) EXCEPT
                     !.decoded = d,
                     !.inlined = _json_with_inlined_bins(d.meta, d.segments)]]
    ELSE [res |-> IF r.raised
                  THEN Result(cs, hp, us, ck, _fail("Internal server error"))
                  ELSE r,
          at |-> [NotRouted(a) EXCEPT
                     !.handler = request_code,
                     !.decoded = d,
                     !.inlined = _json_with_inlined_bins(d.meta, d.segments)]]

\* the handler of the request code, called with the envelope
Handler(meta, full_payload, cs, hp, us, ck, dev_id, request_code, blk_no_raw, trans_id, cmd_return_code, cfg, t, fault) ==
    IF request_code = REQ_REALTIME_GLOG
        THEN _handle_realtime_glog(cs, hp, us, ck, meta, dev_id, t, fault)
    ELSE IF request_code = REQ_REALTIME_ENROLL
        THEN _handle_realtime_enroll_data(cs, hp, us, ck, meta, dev_id, cfg, t, fault)
    ELSE IF request_code = REQ_RECV_CMD
        THEN _handle_receive_cmd(cs, hp, us, ck, dev_id, trans_id, cfg, t, fault)
    ELSE SendCmdResult(cs, hp, us, ck, meta, full_payload, dev_id, trans_id,
                       cmd_return_code, blk_no_raw, cfg, t, fault)

\* handle_request from the decoding on.  d is what decoding gave for the
\* payload; the error it raised is caught by the except clause
Decoded(d, a, cs, hp, us, ck, dev_id, request_code, blk_no_raw, trans_id, cmd_return_code, cfg, t, fault) ==
    IF d.error # ""
    THEN [res |-> Result(cs, hp, us, ck, _fail("Internal server error")),
          at |-> [NotRouted(a) EXCEPT !.decoded = d]]
    ELSE Route(Handler(d.meta, a.payload, cs, hp, us, ck, dev_id, request_code, blk_no_raw,
                       trans_id, cmd_return_code, cfg, t, fault),
               a, d, cs, hp, us, ck, request_code)

\* handle_request once the block assembly has given a
Assembled(a, cs, hp, us, ck, dev_id, request_code, blk_no_raw, trans_id, cmd_return_code, cfg, t, fault) ==
    IF a.reply # NoReply
    THEN [res |-> Result(cs, hp, us, ck, a.reply), at |-> NotRouted(a)]
    ELSE Decoded(Decode(a.payload), a, cs, hp, us, ck, dev_id, request_code, blk_no_raw,
                 trans_id, cmd_return_code, cfg, t, fault)

handle_request(map, files, cs, hp, us, ck, dev_id, request_code, blk_no_raw, raw_data, trans_id, cmd_return_code, cfg, t, fault) ==
    Assembled(BlockAssembly(map, files, dev_id, request_code,
                            IF blk_no_raw # NoHeader THEN IntOfHeader(blk_no_raw) ELSE 0,
                            raw_data),
              cs, hp, us, ck, dev_id, request_code, blk_no_raw, trans_id, cmd_return_code,
              cfg, t, fault)

\* ------------------------------------------------------------------------
\* zkteco_processor.py: handle_zkteco.  A route is a path with its method
\* (and, for an upload, its table); nothing around the handlers catches an
\* exception.
\* ------------------------------------------------------------------------
ZkRoutes == {"GET /iclock/cdata", "POST /iclock/cdata OPERLOG USER",
             "GET /iclock/getrequest", "POST /iclock/devicecmd",
             "GET /iclock/ping", "GET /iclock/other"}

plain_text_response(body, status_code) ==
    [body |-> body, status |-> status_code, response_code |-> ""]

\* an exception leaves the adapter
Escapes(cs, hp, us, ck) == [Result(cs, hp, us, ck, NoReply) EXCEPT !.raised = TRUE]

\* _handle_getrequest once process_device_command has given r:
\* plain_text_response(command_to_send or "OK")
CommandToSend(r, hp, us, ck) ==
    [cmds |-> r.cmds, hasPending |-> hp, users |-> us, checkins |-> ck,
     reply |-> plain_text_response(IF r.payload = NoPayloadBuilt THEN "OK" ELSE "command",
                                   200),
     raised |-> FALSE, selected |-> r.selected, payload |-> r.payload]

\* an adapter that answers every failure of a collaborator with an error
\* reply
handle_zkteco_guarded(cs, hp, us, ck, route, sn, cmd_id, return_code, cfg, t, fault) ==
    Result(cs, hp, us, ck, plain_text_response("ERROR", 500))

\* the upload of a USER line names a user that has a document: only the
\* lookup of get_or_create_user_by_pin is made
handle_zkteco(cs, hp, us, ck, route, sn, cmd_id, return_code, cfg, t, fault) ==
    IF route = "GET /iclock/cdata" THEN
        IF sn = "" THEN Result(cs, hp, us, ck, plain_text_response("ERROR: SN is required.", 400))
        ELSE IF fault = "lookup" THEN Escapes(cs, hp, us, ck)
        ELSE Result(cs, hp, us, ck, plain_text_response("GET OPTION FROM", 200))
    ELSE IF route = "POST /iclock/cdata OPERLOG USER" THEN
        IF fault = "lookup" THEN Escapes(cs, hp, us, ck)
        ELSE Result(cs, hp, us, ck, plain_text_response("OK: 1", 200))
    ELSE IF route = "GET /iclock/getrequest" THEN
        IF sn = "" THEN Result(cs, hp, us, ck, plain_text_response("ERROR: Missing SN", 400))
        ELSE IF fault = "lookup" THEN Escapes(cs, hp, us, ck)
        ELSE IF fault = "storage"
        THEN [Result(cs, hp, us, ck, plain_text_response("OK", 200))
                 EXCEPT !.selected = NextCommand(cs, sn)]
        ELSE CommandToSend(process_device_command(cs, us, sn, cfg, t), hp, us, ck)
    ELSE IF route = "POST /iclock/devicecmd" THEN
        IF fault # "none" THEN Result(cs, hp, us, ck, plain_text_response("OK", 200))
        ELSE Result(_handle_devicecmd(cs, cmd_id, return_code, cfg, t), hp, us, ck,
                    plain_text_response("OK", 200))
    ELSE IF route = "GET /iclock/ping" THEN
        Result(cs, hp, us, ck, plain_text_response("OK", 200))
    ELSE Result(cs, hp, us, ck, plain_text_response("Not Found", 404))

\* ------------------------------------------------------------------------
\* The adapters, one action per whole request.  At most one command has
\* been enqueued beforehand and time passes; requests come from any device,
\* with any header values, and a collaborator may fail during any of them.
\* ------------------------------------------------------------------------
\* the request codes sent: those of the router, one without a handler, none
AdapterReqCodes == REQUEST_ROUTER \cup {"get_time", ""}

\* the device ids sent: those of the devices, none
AdapterDevIds == DevIds \cup {""}

\* blk_no: absent, "0", and a middle block that no first block preceded
AdapterBlkHeaders == BlkHeaders \cup {"2"}

\* bodies: empty, an envelope never closed, an empty envelope, an envelope
\* with the members the handlers read
AdapterPayloads == {<<>>, <<LBrace, Plain>>, <<LBrace, RBrace>>, <<LBrace, Plain, RBrace>>}

\* the transaction ids sent with a request code: those of the commands and
\* one that names none, where the handler reads the header
TransIds(request_code) ==
    IF request_code \in {REQ_RECV_CMD, REQ_SEND_CMD_RESULT}
    THEN 0..(Len(cmds) + 1)
    ELSE {0}

\* the return codes sent with a request code
CmdReturnCodes(request_code) ==
    IF request_code = REQ_SEND_CMD_RESULT THEN ReturnCodes ELSE {""}

\* the requests followed in one run
MaxAdapterReqs == 1

NoAdapterOp == [op |-> "", request |-> "", handler |-> "", device |-> "",
                trans_id |-> 0, blk_no |-> NoHeader, fault |-> "none",
                selected |-> 0, shipped |-> FALSE, raised |-> FALSE,
                payload |-> NoPayloadBuilt, served |-> 0]

AdapterInit ==
    /\ AsmIdle
    /\ CodecIdle
    /\ CheckinIdle
    /\ ToolIdle
    /\ users = UserDocs
    /\ settings \in [maximum_no_of_attempts_for_commands : MaxAttemptsChoices,
                     force_close_after : ForceDaysChoices]
    /\ now = 0
    /\ \/ /\ cmds = <<>>
          /\ hasPending = [x \in DevIds |-> 0]
       \/ \E d \in DevIds, u \in Users, k \in Kinds :
              LET r == add_command(<<>>, [x \in DevIds |-> 0], d, u, BrandOfDevice[d], k,
                                   settings, now)
              IN  /\ cmds = r.cmds
                  /\ hasPending = r.hasPending
    /\ lastOp = NoAdapterOp
    /\ qwk = [w \in Workers |-> IdleEnqueue]

\* the tables a request leaves stay within the bounds
WithinBounds(cs) ==
    /\ Len(cs) <= MaxCmds
    /\ TotalAttempts(cs, Len(cs)) <= MaxTries
    /\ TotalLog(cs, Len(cs)) <= MaxLog

\* the request has been answered as h says
Answered(h, dev_id, request_code, blk_no_raw, trans_id, fault) ==
    /\ lastOp.served < MaxAdapterReqs
    /\ WithinBounds(h.res.cmds)
    /\ blockMap' = h.at.map
    /\ partial' = h.at.files
    /\ handed' = h.at.full_payload
    /\ raw' = IF h.at.full_payload = NoPayload THEN <<>> ELSE h.at.full_payload
    /\ decoded' = h.at.decoded
    /\ inlined' = h.at.inlined
    /\ reply' = h.res.reply
    /\ cmds' = h.res.cmds
    /\ hasPending' = h.res.hasPending
    /\ users' = h.res.users
    /\ checkins' = h.res.checkins
    /\ UNCHANGED toolVars
    /\ lastOp' = [NoAdapterOp EXCEPT !.op = "handle_ebkn", !.request = request_code,
                                     !.handler = h.at.handler, !.device = dev_id,
                                     !.trans_id = trans_id, !.blk_no = blk_no_raw,
                                     !.fault = fault,
                                     !.selected = h.res.selected,
                                     !.shipped = (h.res.payload # NoPayloadBuilt),
                                     !.raised = h.res.raised,
                                     !.payload = h.res.payload,
                                     !.served = lastOp.served + 1]
    /\ UNCHANGED <<reqLog, wk, accLog>>
    /\ UNCHANGED <<settings, now, qwk>>

\* handle_ebkn(_, raw, headers)
HandleEbkn(dev_id, request_code, blk_no_raw, raw_data, trans_id, cmd_return_code, fault) ==
    Answered(handle_request(blockMap, partial, cmds, hasPending, users, checkins, dev_id,
                            request_code, blk_no_raw, raw_data, trans_id, cmd_return_code,
                            settings, now, fault),
             dev_id, request_code, blk_no_raw, trans_id, fault)

\* the request has been answered as r says, or has raised
AnsweredZk(r, route, sn, cmd_id, fault) ==
    /\ lastOp.served < MaxAdapterReqs
    /\ WithinBounds(r.cmds)
    /\ reply' = r.reply
    /\ cmds' = r.cmds
    /\ hasPending' = r.hasPending
    /\ users' = r.users
    /\ checkins' = r.checkins
    /\ UNCHANGED toolVars
    /\ lastOp' = [NoAdapterOp EXCEPT !.op = "handle_zkteco", !.request = route,
                                     !.handler = route, !.device = sn,
                                     !.trans_id = cmd_id, !.fault = fault,
                                     !.selected = r.selected,
                                     !.shipped = (r.payload # NoPayloadBuilt),
                                     !.raised = r.raised,
                                     !.payload = r.payload,
                                     !.served = lastOp.served + 1]
    /\ UNCHANGED <<blockMap, partial, handed, reqLog, wk, accLog>>
    /\ UNCHANGED <<settings, now, qwk>>
    /\ UNCHANGED codecVars

\* handle_zkteco(request, raw_body, headers)
HandleZkteco(route, sn, cmd_id, return_code, fault) ==
    AnsweredZk(handle_zkteco(cmds, hasPending, users, checkins, route, sn, cmd_id,
                             return_code, settings, now, fault),
               route, sn, cmd_id, fault)

\* a day passes
AdapterTick ==
    /\ now < MaxDays
    /\ now' = now + 1
    /\ lastOp' = [NoAdapterOp EXCEPT !.op = "tick", !.served = lastOp.served]
    /\ UNCHANGED <<cmds, hasPending, users, settings, qwk>>
    /\ UNCHANGED asmVars
    /\ UNCHANGED codecVars
    /\ UNCHANGED checkinVars
    /\ UNCHANGED toolVars

AdapterNext ==
    \/ \E d \in AdapterDevIds, rc \in AdapterReqCodes, b \in AdapterBlkHeaders,
          p \in AdapterPayloads, f \in Faults :
           \E n \in TransIds(rc), c \in CmdReturnCodes(rc) : HandleEbkn(d, rc, b, p, n, c, f)
    \/ \E r \in ZkRoutes, d \in AdapterDevIds, f \in Faults :
           \E n \in (IF r = "POST /iclock/devicecmd" THEN 0..(Len(cmds) + 1) ELSE {0}),
              c \in (IF r = "POST /iclock/devicecmd" THEN ZkReturns ELSE {"0"}) :
               HandleZkteco(r, d, n, c, f)
    \/ AdapterTick

SpecAdapter == AdapterInit /\ [][AdapterNext]_vars

\* ------------------------------------------------------------------------
\* hikvision_processor.py: sync_device_attendance.  The device answers the
\* count query and every batch request as it likes: with any status, any
\* total and any batch, whatever it answered before; a request may also
\* raise (0: no response).
\* ------------------------------------------------------------------------
\* the ceiling on totalMatches
Ceiling == 1500

\* batch_size
BatchSize == 10

\* the device that is synced
SyncDevice == "H1"

\* the employees of the site
Employees == {"E7"}

\* the status of a response; 0: the request raised
ResponseStatuses == {200, 500, 0}

\* the totals a device reports: none, fewer than a batch, some batches, the
\* ceiling, more than the ceiling
Totals == {0, 1, 25, Ceiling, Ceiling + 1}

\* the events of an InfoList: a check-in and a check-out of a known
\* employee, an event without employee number, an event of another kind
Events ==
    {[employeeNoString |-> "E7", time |-> 1, attendanceStatus |-> "checkIn"],
     [employeeNoString |-> "E7", time |-> 1, attendanceStatus |-> "checkOut"],
     [employeeNoString |-> "", time |-> 1, attendanceStatus |-> "checkIn"],
     [employeeNoString |-> "E7", time |-> 1, attendanceStatus |-> "breakOut"]}

\* the InfoLists a device sends: empty, one event, a full batch
Batches ==
    {<<>>} \cup {<<ev>> : ev \in Events} \cup {[k \in 1..BatchSize |-> ev] : ev \in Events}

\* the batch requests followed in one run
MaxBatches == 4

\* find_or_create_employee: the name of the employee, "" for None
find_or_create_employee(emp_no) == IF emp_no \in Employees THEN emp_no ELSE ""

\* create_checkin_log: the check-in is inserted and its document returned
create_checkin_log(ck, employee, timestamp, device_id, log_type) ==
    Append(ck, [employee |-> employee, time |-> timestamp, device_id |-> device_id,
                log_type |-> log_type])

\* frappe.db.exists('Employee Checkin', {...})
existing_checkin(ck, employee, timestamp, device_id, log_type) ==
    \E k \in 1..Len(ck) :
        /\ "log_type" \in DOMAIN ck[k]
        /\ ck[k].employee = employee
        /\ ck[k].time = timestamp
        /\ ck[k].log_type = log_type
        /\ ck[k].device_id = device_id

\* the body of the loop over events, for the first n events of a batch:
\* the check-ins, count and skipped afterwards
RECURSIVE ProcessEvents(_, _, _)
ProcessEvents(st, events, n) ==
    IF n = 0 THEN st
    ELSE
        LET prev == ProcessEvents(st, events, n - 1)
            log == events[n]
            log_type == IF log.attendanceStatus = "checkIn" THEN "IN" ELSE "OUT"
            employee == find_or_create_employee(log.employeeNoString)
        IN  IF log.employeeNoString = "" \/ log.time = 0 THEN prev
            ELSE IF log.attendanceStatus \notin {"checkIn", "checkOut"} THEN prev
            ELSE IF employee = "" THEN prev
            ELSE IF existing_checkin(prev.checkins, employee, log.time, SyncDevice, log_type)
            THEN [prev EXCEPT !.skipped = @ + 1]
            ELSE [prev EXCEPT !.checkins = create_checkin_log(@, employee, log.time,
                                                              SyncDevice, log_type),
                              !.count = @ + 1]

\* a count query that takes any total
CountQuery_uncapped(status, total) ==
    IF status # 200 THEN [pc |-> "done", result |-> "error"]
    ELSE IF total = 0 THEN [pc |-> "done", result |-> "message"]
    ELSE [pc |-> "loop", result |-> ""]

\* sync_device_attendance up to the loop: the initial fetch and the checks
\* of its status and of totalMatches
CountQuery(status, total) ==
    IF status # 200 THEN [pc |-> "done", result |-> "error"]
    ELSE IF total = 0 THEN [pc |-> "done", result |-> "message"]
    ELSE IF total > Ceiling THEN [pc |-> "done", result |-> "error"]
    ELSE [pc |-> "loop", result |-> ""]

\* one pass of the while loop, the device answering with status and events:
\* the run afterwards and the check-ins
FetchBatch(run, ck, status, events) ==
    LET r1 == [run EXCEPT !.requests = @ + 1, !.last = Len(events)]
        st == ProcessEvents([checkins |-> ck, count |-> run.count, skipped |-> run.skipped],
                            events, Len(events))
    IN  IF status = 0
        THEN [run |-> [r1 EXCEPT !.pc = "done", !.result = "error", !.last = 0],
              checkins |-> ck]
        ELSE IF status # 200 \/ events = <<>>
        THEN [run |-> [r1 EXCEPT !.pc = "done", !.result = "message", !.last = 0],
              checkins |-> ck]
        ELSE [run |-> [r1 EXCEPT !.count = st.count, !.skipped = st.skipped,
                                 !.position = @ + BatchSize,
                                 !.pc = IF Len(events) < BatchSize THEN "done" ELSE "loop",
                                 !.result = IF Len(events) < BatchSize THEN "message" ELSE ""],
              checkins |-> st.checkins]

SyncInit ==
    /\ AsmIdle
    /\ QueueIdle
    /\ CodecIdle
    /\ CheckinIdle
    /\ ToolIdle

\* sync_device_attendance is called and the device answers the count query
SyncStart(status, total) ==
    /\ sync.pc = "idle"
    /\ sync' = [NoSync EXCEPT !.pc = CountQuery(status, total).pc,
                              !.result = CountQuery(status, total).result,
                              !.total = IF status = 200 THEN total ELSE 0]
    /\ UNCHANGED <<listener, siteMap>>
    /\ UNCHANGED asmVars
    /\ UNCHANGED queueVars
    /\ UNCHANGED codecVars
    /\ UNCHANGED checkinVars

\* the device answers the next batch request
SyncBatch(status, events) ==
    /\ sync.pc = "loop"
    /\ sync.requests < MaxBatches
    /\ sync' = FetchBatch(sync, checkins, status, events).run
    /\ checkins' = FetchBatch(sync, checkins, status, events).checkins
    /\ UNCHANGED <<listener, siteMap>>
    /\ UNCHANGED asmVars
    /\ UNCHANGED queueVars
    /\ UNCHANGED codecVars

SyncNext ==
    \/ \E status \in ResponseStatuses, total \in Totals : SyncStart(status, total)
    \/ \E status \in ResponseStatuses, events \in Batches : SyncBatch(status, events)

SpecSync == SyncInit /\ [][SyncNext]_vars

\* ------------------------------------------------------------------------
\* commands/utils.py: the listener of the site.  nginx.conf holds the server
\* blocks, each between the markers of its site and port; site_config.json
\* holds the port under LISTENER_PORT_KEY (0: the key is absent).  Every
\* operation runs in a process of its own, so frappe.conf is the file.
\* ------------------------------------------------------------------------
\* the ports an operator asks for
Ports == {8000, 8001}

\* the operations followed in one run
MaxOps == 4

\* get_config_key(LISTENER_PORT_KEY)
get_config_key(l) == l.port

\* enable_listener_logic(site, port) with nginx.conf present or not and the
\* reload of nginx succeeding or not: the listener afterwards and the
\* success it reports
enable_listener_logic(l, port, conf, reload) ==
    IF ~conf THEN [listener |-> l, success |-> FALSE]
    ELSE IF port \in l.blocks THEN [listener |-> l, success |-> TRUE]
    ELSE [listener |-> [l EXCEPT !.blocks = @ \cup {port}, !.port = port],
          success |-> reload]

\* disable_listener_logic(site)
disable_listener_logic(l, conf, reload) ==
    IF get_config_key(l) = 0 THEN [listener |-> l, success |-> TRUE]
    ELSE IF ~conf THEN [listener |-> l, success |-> FALSE]
    ELSE [listener |-> [l EXCEPT !.blocks = @ \ {get_config_key(l)}, !.port = 0],
          success |-> reload]

\* get_status_logic(site)["status"]
get_status_logic(l) == IF get_config_key(l) # 0 THEN "enabled" ELSE "disabled"

\* the operation op ended with the listener and the success of r
Operated(op, r) ==
    /\ listener.ops < MaxOps
    /\ listener' = [r.listener EXCEPT !.last = op,
                                      !.ok = r.success,
                                      !.lastOk = IF r.success THEN op ELSE @,
                                      !.ops = @ + 1]
    /\ UNCHANGED <<sync, siteMap>>
    /\ UNCHANGED asmVars
    /\ UNCHANGED queueVars
    /\ UNCHANGED codecVars
    /\ UNCHANGED checkinVars

ListenerInit ==
    /\ AsmIdle
    /\ QueueIdle
    /\ CodecIdle
    /\ CheckinIdle
    /\ ToolIdle

EnableListener(port, conf, reload) == Operated("enable", enable_listener_logic(listener, port, conf, reload))

DisableListener(conf, reload) == Operated("disable", disable_listener_logic(listener, conf, reload))

\* the status is asked for; nothing but the answer changes
GetStatus ==
    /\ listener.status # get_status_logic(listener)
    /\ listener' = [listener EXCEPT !.status = get_status_logic(listener)]
    /\ UNCHANGED <<sync, siteMap>>
    /\ UNCHANGED asmVars
    /\ UNCHANGED queueVars
    /\ UNCHANGED codecVars
    /\ UNCHANGED checkinVars

ListenerNext ==
    \/ \E port \in Ports, conf \in BOOLEAN, reload \in BOOLEAN : EnableListener(port, conf, reload)
    \/ \E conf \in BOOLEAN, reload \in BOOLEAN : DisableListener(conf, reload)
    \/ GetStatus

SpecListener == ListenerInit /\ [][ListenerNext]_vars

\* ------------------------------------------------------------------------
\* Enrolment: user documents are looked up, created and edited, devices
\* upload templates and a device is registered.  Every request carries the
\* serial of a registered device, and any registered device may use the
\* endpoint of either vendor.  hasPending is the has_pending_command of the
\* device documents, siteMap what the device-to-site map holds of them.
\* ------------------------------------------------------------------------
EnrollDevices == {"Z1", "Z2", "E1", "E2"}

\* the brand of the device documents
EnrollBrand == [d \in EnrollDevices |-> IF d \in {"Z1", "Z2"} THEN "ZKTeco" ELSE "EBKN"]

\* the PINs devices report
Pins == {"P1", "P2"}

\* the templates devices upload
Templates == {<<1>>, <<2>>}

\* the operations followed in one run
MaxEnrollOps == 4

NoEnrollOp == [op |-> "", device |-> "", brand |-> "", pin |-> "", name |-> NoName,
               created |-> FALSE, raised |-> FALSE, ops |-> 0]

\* frappe.get_all("Biometric Device", fields=["name", "brand", "disabled"])
Devices(mp) == [d \in DOMAIN mp |-> [brand |-> EnrollBrand[d], disabled |-> mp[d].disabled]]

\* _sync_device_site_map(doc, "on_update")
_sync_device_site_map(mp, device, disabled, has_pending_command) ==
    Put(mp, device, [disabled |-> disabled, has_pending_command |-> has_pending_command])

\* the map after the saves of update_has_pending_command that took the
\* flags from hp to hp2: the on_update of every saved device has run
RECURSIVE SavedDevices(_, _, _, _)
SavedDevices(mp, hp, hp2, devices) ==
    IF devices = {} THEN mp
    ELSE LET d == CHOOSE x \in devices : TRUE
         IN  SavedDevices(IF hp2[d] # hp[d]
                          THEN _sync_device_site_map(mp, d, mp[d].disabled, hp2[d])
                          ELSE mp,
                          hp, hp2, devices \ {d})

\* _process_fingerprint_data once the user of the PIN has been looked up
SaveTemplate(u, sn, template, devs, cfg, t) ==
    IF u.raised THEN u
    ELSE [save_enrollment_data(u, u.users, u.name, "ZKTeco", sn, template, devs, cfg, t)
             EXCEPT !.created = u.created]

\* _process_fingerprint_data(sn, body_str) for a body of one template
_process_fingerprint_data(q, us, sn, pin, template, devs, cfg, t) ==
    SaveTemplate(get_or_create_user_by_pin(q, us, pin, "", devs, cfg, t), sn, template,
                 devs, cfg, t)

\* _active_users_with_blob(brand) and the loop of
\* _enqueue_initial_enrolments over it, for the first n users
RECURSIVE _enqueue_initial_enrolments(_, _, _, _, _, _, _)
_enqueue_initial_enrolments(q, us, device, brand, n, cfg, t) ==
    IF n = 0 THEN q
    ELSE IF us[n].allow_user_in_all_devices = 1 /\ BlobOf(us[n], brand) # NoBlob
    THEN AddCommands(_enqueue_initial_enrolments(q, us, device, brand, n - 1, cfg, t),
                     {[biometric_device |-> device, brand |-> brand]}, n, "Enroll User",
                     cfg, t)
    ELSE _enqueue_initial_enrolments(q, us, device, brand, n - 1, cfg, t)

EnrollInit ==
    /\ AsmIdle
    /\ CodecIdle
    /\ CheckinIdle
    /\ listener = NoListener
    /\ sync = NoSync
    /\ \E registered \in {EnrollDevices, EnrollDevices \ {"Z2"}} :
           siteMap = [d \in registered |-> [disabled |-> 0, has_pending_command |-> 0]]
    /\ cmds = <<>>
    /\ hasPending = [d \in EnrollDevices |-> 0]
    /\ users = <<>>
    /\ settings = [maximum_no_of_attempts_for_commands |-> 2, force_close_after |-> 2]
    /\ now = 0
    /\ lastOp = NoEnrollOp
    /\ qwk = [w \in Workers |-> IdleEnqueue]

\* the operation has left the tables of r, and mp of the map
Applied(r, mp, op, device, brand, pin) ==
    /\ lastOp.ops < MaxEnrollOps
    /\ Len(r.cmds) <= MaxCmds
    /\ users' = r.users
    /\ cmds' = r.cmds
    /\ hasPending' = r.hasPending
    /\ siteMap' = mp
    /\ lastOp' = [NoEnrollOp EXCEPT !.op = op, !.device = device, !.brand = brand,
                                    !.pin = pin, !.name = r.name, !.created = r.created,
                                    !.raised = r.raised, !.ops = lastOp.ops + 1]
    /\ UNCHANGED <<settings, now, qwk>>
    /\ UNCHANGED <<listener, sync>>
    /\ UNCHANGED asmVars
    /\ UNCHANGED codecVars
    /\ UNCHANGED checkinVars

\* the operation has left the tables of r; the devices it flagged were saved
Done(r, op, device, brand, pin) ==
    Applied(r, SavedDevices(siteMap, hasPending, r.hasPending, DOMAIN siteMap),
            op, device, brand, pin)

\* get_or_create_user_by_pin(pin)
GetOrCreateUser(pin) ==
    Done(get_or_create_user_by_pin([cmds |-> cmds, hasPending |-> hasPending], users, pin, "",
                                   Devices(siteMap), settings, now),
         "get_or_create_user_by_pin", NoDevice, "", pin)

\* POST /iclock/cdata?SN=sn&table=OPERLOG with one FP line
ZkFingerprint(sn, pin, template) ==
    /\ sn \in DOMAIN siteMap
    /\ Done(_process_fingerprint_data([cmds |-> cmds, hasPending |-> hasPending], users, sn,
                                      pin, template, Devices(siteMap), settings, now),
            "_process_fingerprint_data", sn, "ZKTeco", pin)

\* realtime_enroll_data from dev_id
EbknEnroll(dev_id, pin) ==
    /\ dev_id \in DOMAIN siteMap
    /\ Done(RealtimeEnroll([cmds |-> cmds, hasPending |-> hasPending], users, dev_id, pin,
                           Devices(siteMap), settings, now),
            "_handle_realtime_enroll_data", dev_id, "EBKN", pin)

\* send_cmd_result from dev_id with return code OK and no blk_no, for a
\* Get Enroll Data command, the payload naming the user of the PIN
EbknStore(dev_id, trans_id, pin, blob) ==
    /\ dev_id \in DOMAIN siteMap
    /\ cmds[trans_id].command_type = "Get Enroll Data"
    /\ HasUser(users, pin)
    /\ Done(_store_get_user_info_blob(
                [cmds |-> _handle_send_cmd_result(cmds, trans_id, "OK", NoHeader, settings, now),
                 hasPending |-> hasPending],
                users, dev_id, UserByPin(users, pin), blob, Devices(siteMap), settings, now),
            "_store_get_user_info_blob", dev_id, "EBKN", pin)

\* an operator adds a device to the child table of a user and saves
AssignDevice(name, device) ==
    /\ device \in DOMAIN siteMap
    /\ \A r \in users[name].devices : r.biometric_device # device
    /\ Done(SaveUser([cmds |-> cmds, hasPending |-> hasPending], users, name,
                     [users[name] EXCEPT !.devices =
                         @ \cup {[biometric_device |-> device, brand |-> EnrollBrand[device],
                                  enroll_data_source |-> 0]}],
                     Devices(siteMap), settings, now),
            "assign", device, EnrollBrand[device], users[name].user_id)

\* an operator sets allow_user_in_all_devices and saves
AllowAll(name) ==
    /\ users[name].allow_user_in_all_devices = 0
    /\ Done(SaveUser([cmds |-> cmds, hasPending |-> hasPending], users, name,
                     [users[name] EXCEPT !.allow_user_in_all_devices = 1],
                     Devices(siteMap), settings, now),
            "allow", NoDevice, "", users[name].user_id)

\* the tables after the initial enrolments of a new device gave q
Enqueued(q) ==
    [users |-> users, cmds |-> q.cmds, hasPending |-> q.hasPending, name |-> NoName,
     created |-> TRUE, raised |-> FALSE]

\* BiometricDevice.insert() of an enabled device: after_insert writes the
\* entry of the map and enqueues the initial enrolments, the insert of a
\* command saves the device document it has fetched, and on_update of the
\* inserted document, which was read before that save, writes the entry
\* again
InsertDevice(device, r) ==
    Applied(r,
            _sync_device_site_map(
                SavedDevices(_sync_device_site_map(siteMap, device, 0, 0), hasPending,
                             r.hasPending, (DOMAIN siteMap) \cup {device}),
                device, 0, 0),
            "insert_device", device, EnrollBrand[device], "")

DeviceInsert(device) ==
    /\ device \notin DOMAIN siteMap
    /\ InsertDevice(device,
                    Enqueued(_enqueue_initial_enrolments(
                                 [cmds |-> cmds, hasPending |-> hasPending], users, device,
                                 EnrollBrand[device], Len(users), settings, now)))

EnrollNext ==
    \/ \E pin \in Pins \cup {""} : GetOrCreateUser(pin)
    \/ \E sn \in EnrollDevices, pin \in Pins, template \in Templates : ZkFingerprint(sn, pin, template)
    \/ \E dev_id \in EnrollDevices, pin \in Pins : EbknEnroll(dev_id, pin)
    \/ \E dev_id \in EnrollDevices, n \in 1..Len(cmds), pin \in Pins, blob \in Templates : EbknStore(dev_id, n, pin, blob)
    \/ \E name \in 1..Len(users), device \in EnrollDevices : AssignDevice(name, device)
    \/ \E name \in 1..Len(users) : AllowAll(name)
    \/ \E device \in EnrollDevices : DeviceInsert(device)

SpecEnroll == EnrollInit /\ [][EnrollNext]_vars

\* ------------------------------------------------------------------------
\* History operators used by the properties of the reassembler
\* ------------------------------------------------------------------------
LastReq == reqLog[Len(reqLog)]

KeyOf(e) == _seq_key(e.dev_id, e.request_code)

\* the requests submitted for one key, in order
SubLog(key) == SelectSeq(reqLog, LAMBDA e : KeyOf(e) = key)

\* index of the most recent block 1 in P, 0 when there is none
LastBlockOne(P) ==
    IF \E i \in 1..Len(P) : P[i].blk_no = 1
    THEN CHOOSE i \in 1..Len(P) : P[i].blk_no = 1 /\ \A j \in (i+1)..Len(P) : P[j].blk_no # 1
    ELSE 0

RECURSIVE ConcatChunks(_, _, _)
ConcatChunks(P, i, j) == IF i > j THEN <<>> ELSE P[i].raw_data \o ConcatChunks(P, i + 1, j)

\* P[i..] is 1, 2, ..., N, 0 with the 0 at the end of P
InOrderFrom(P, i) ==
    /\ i > 0
    /\ i < Len(P)
    /\ P[Len(P)].blk_no = 0
    /\ \A j \in i..(Len(P) - 1) : P[j].blk_no = j - i + 1

\* the chunks of P[i..j] that a reassembler expecting block `expected` next
\* accepts: a block is accepted exactly when it is the expected one, the
\* terminal block 0 always
RECURSIVE AcceptedChunks(_, _, _, _)
AcceptedChunks(P, i, j, expected) ==
    IF i > j THEN <<>>
    ELSE IF P[i].blk_no = 0 THEN P[i].raw_data
    ELSE IF P[i].blk_no = expected
         THEN P[i].raw_data \o AcceptedChunks(P, i + 1, j, expected + 1)
         ELSE AcceptedChunks(P, i + 1, j, expected)

\* the session of the key started at P[i] is still open just before P's end
OpenFrom(P, i) ==
    /\ i > 0
    /\ i < Len(P)
    /\ \A j \in (i + 1)..(Len(P) - 1) : P[j].blk_no > 1

\* ------------------------------------------------------------------------
\* C1: for an in-order sequence 1, 2, ..., N, 0 on one key, the payload
\* handed to decoding on block 0 is the concatenation of all the submitted
\* chunks in submission order.
\* ------------------------------------------------------------------------
C1_InOrderConcat ==
    reqLog # <<>> =>
        LET P == SubLog(KeyOf(LastReq))
            i == LastBlockOne(P)
        IN  InOrderFrom(P, i) => handed = ConcatChunks(P, i, Len(P))

C1_Witness ==
    /\ reqLog # <<>>
    /\ LET P == SubLog(KeyOf(LastReq))
           i == LastBlockOne(P)
       IN  /\ InOrderFrom(P, i)
           /\ Len(P) - i >= 2
           /\ handed = ConcatChunks(P, i, Len(P))
           /\ Len(handed) = 3

\* ------------------------------------------------------------------------
\* C2: block K > 1 whose predecessor K-1 is not the last accepted block of
\* the key (or with no session at all) is answered "Block sequence
\* mismatch" and leaves the key's buffer and last-block record as they were.
\* ------------------------------------------------------------------------
C2_MismatchNoChange ==
    [][(reqLog' # reqLog /\ reqLog'[Len(reqLog')].blk_no > 1) =>
        LET e == reqLog'[Len(reqLog')]
            before == _get_last_block(blockMap, e.dev_id, e.request_code)
        IN  before # e.blk_no - 1 =>
                /\ reply' = _fail("Block sequence mismatch")
                /\ handed' = NoPayload
                /\ _get_last_block(blockMap', e.dev_id, e.request_code) = before
                /\ _read_sequence(partial', e.dev_id, e.request_code)
                     = _read_sequence(partial, e.dev_id, e.request_code)]_vars

\* a mismatching block arrived on an open session and on no session
C2_Witness ==
    /\ Len(reqLog) >= 3
    /\ reply = _fail("Block sequence mismatch")
    /\ LastReq.blk_no = 3
    /\ _get_last_block(blockMap, LastReq.dev_id, LastReq.request_code) = 1
    /\ \E i \in 1..(Len(reqLog) - 1) : reqLog[i].blk_no = 2 /\ KeyOf(reqLog[i]) # KeyOf(LastReq)

\* ------------------------------------------------------------------------
\* C3: block 1 restarts the session of its key: afterwards the buffer is
\* exactly that chunk and the last block is 1, and the payload completed
\* by a later block 0 is made of the chunks accepted from the most recent
\* block 1 onwards, nothing older.
\* ------------------------------------------------------------------------
C3_BlockOneRestarts ==
    reqLog # <<>> =>
        LET e == LastReq
            P == SubLog(KeyOf(e))
            i == LastBlockOne(P)
        IN  /\ e.blk_no = 1 =>
                /\ _read_sequence(partial, e.dev_id, e.request_code) = e.raw_data
                /\ _get_last_block(blockMap, e.dev_id, e.request_code) = 1
                /\ reply = _ok_after_block
            /\ (e.blk_no = 0 /\ OpenFrom(P, i)) =>
                handed = P[i].raw_data \o AcceptedChunks(P, i + 1, Len(P), 2)

\* block 1 was submitted twice on the key and a block 0 then completed it
C3_Witness ==
    /\ reqLog # <<>>
    /\ LET e == LastReq
           P == SubLog(KeyOf(e))
           i == LastBlockOne(P)
       IN  /\ e.blk_no = 0
           /\ OpenFrom(P, i)
           /\ \E j \in 1..(i - 1) : P[j].blk_no = 1 /\ \A n \in j..i : P[n].blk_no # 0
           /\ handed = P[i].raw_data \o e.raw_data

\* ------------------------------------------------------------------------
\* C4: block 0 on a key without a last-block record is a single-shot
\* message: the body alone is the payload handed to decoding, the request
\* creates no last-block record and no buffer, so a key that had neither
\* has neither afterwards.
\* ------------------------------------------------------------------------
C4_SingleShot ==
    [][(reqLog' # reqLog /\ reqLog'[Len(reqLog')].blk_no = 0) =>
        LET e == reqLog'[Len(reqLog')]
        IN  _get_last_block(blockMap, e.dev_id, e.request_code) = None =>
                /\ handed' = e.raw_data
                /\ reply' = NoReply
                /\ _get_last_block(blockMap', e.dev_id, e.request_code) = None
                /\ partial' = partial
                /\ (_partial_path(e.dev_id, e.request_code) \notin DOMAIN partial
                      => _partial_path(e.dev_id, e.request_code) \notin DOMAIN partial')]_vars

\* a single-shot block 0 was handled on a key with no buffer and no record
\* while another key has a session open
C4_Witness ==
    /\ Len(reqLog) >= 2
    /\ LastReq.blk_no = 0
    /\ Len(SubLog(KeyOf(LastReq))) = 1
    /\ handed = LastReq.raw_data
    /\ KeyOf(LastReq) \notin DOMAIN blockMap
    /\ _partial_path(LastReq.dev_id, LastReq.request_code) \notin DOMAIN partial
    /\ DOMAIN blockMap # {}

\* ------------------------------------------------------------------------
\* C5: when block 0 completes a multi-block upload, the session is torn
\* down: afterwards the key has no buffer and no last-block record.
\* ------------------------------------------------------------------------
C5_SessionTornDown ==
    [][(reqLog' # reqLog /\ reqLog'[Len(reqLog')].blk_no = 0) =>
        LET e == reqLog'[Len(reqLog')]
        IN  _get_last_block(blockMap, e.dev_id, e.request_code) # None =>
                /\ _get_last_block(blockMap', e.dev_id, e.request_code) = None
                /\ _partial_path(e.dev_id, e.request_code) \notin DOMAIN partial']_vars

\* ------------------------------------------------------------------------
\* C6: with concurrent workers on one session, the last-block check and the
\* append-and-advance are atomic: no block number is appended twice in a
\* session, and a payload completed from the session is the concatenation
\* of the accepted chunks in block order.
\* ------------------------------------------------------------------------
BlocksOf(log) == {log[i].blk_no : i \in 1..Len(log)}

\* log holds blocks 1, 2, ..., N and then 0, each once, in that order
InBlockOrder(log) ==
    /\ \A i \in 1..(Len(log) - 1) : log[i].blk_no = i
    /\ log[Len(log)].blk_no = 0

C6_AtomicCheckAndAppend ==
    /\ \A k \in AllKeys : Cardinality(BlocksOf(accLog[k])) = Len(accLog[k])
    /\ \A w \in Workers :
         (wk[w].pc = "clear_load" /\ wk[w].blk_no = 0) =>
             LET log == accLog[_seq_key(wk[w].dev_id, wk[w].request_code)]
             IN  /\ log # <<>>
                 /\ InBlockOrder(log)
                 /\ wk[w].full_payload = ConcatChunks(log, 1, Len(log))

\* ------------------------------------------------------------------------
\* History operators used by the properties of the command queue
\* ------------------------------------------------------------------------
Tuples == DevIds \X Users \X (Brands \cup {"EBKN"}) \X (AddCommandTypes \cup {"Get Enroll Data"})

PendingCount(cs, tp) == Cardinality(PendingFor(cs, tp[1], tp[2], tp[3], tp[4]))

\* ------------------------------------------------------------------------
\* C7: under any interleaving of concurrent add_command and
\* _queue_get_user_info calls, at most one Pending command exists for a
\* (device, user, vendor, kind) tuple.
\* ------------------------------------------------------------------------
C7_OnePendingPerTuple == \A tp \in Tuples : PendingCount(cmds, tp) <= 1

\* ------------------------------------------------------------------------
\* C8: add_command called twice in succession with the same (device, user,
\* vendor, kind) leaves exactly one Pending command for the tuple, and the
\* second call creates nothing and changes nothing.
\* ------------------------------------------------------------------------
C8_EnqueueIdempotent ==
    [][(lastOp'.op = "add_command" /\ lastOp'.again) =>
        /\ cmds' = cmds
        /\ hasPending' = hasPending
        /\ ~lastOp'.created
        /\ PendingCount(cmds', <<lastOp'.device, lastOp'.user, lastOp'.brand,
                                 lastOp'.command_type>>) = 1]_vars

\* the second of two successive calls has returned, next to other commands
C8_Witness ==
    /\ lastOp.op = "add_command"
    /\ lastOp.again
    /\ ~lastOp.created
    /\ Len(cmds) >= 2
    /\ PendingCount(cmds, <<lastOp.device, lastOp.user, lastOp.brand, lastOp.command_type>>) = 1

\* ------------------------------------------------------------------------
\* C9: process_device_command(device) selects the Pending command of that
\* device with the earliest creation time, none exactly when the device has
\* no Pending command; what it ships is the payload of the selected command,
\* so nothing is shipped while an older Pending command of the device
\* exists and no command of another device is selected.
\* ------------------------------------------------------------------------
C9_OldestPendingFirst ==
    [][lastOp'.op = "process_device_command" =>
        LET d == lastOp'.device
            sel == lastOp'.selected
        IN  /\ (sel = 0) <=> (\A i \in 1..Len(cmds) :
                                ~(cmds[i].biometric_device = d /\ cmds[i].status = "Pending"))
            /\ sel # 0 =>
                /\ sel \in 1..Len(cmds)
                /\ cmds[sel].biometric_device = d
                /\ cmds[sel].status = "Pending"
                /\ \A i \in 1..Len(cmds) :
                     (cmds[i].biometric_device = d /\ cmds[i].status = "Pending")
                        => cmds[sel].creation <= cmds[i].creation
            /\ lastOp'.shipped => (sel # 0 /\ lastOp'.payload # NoPayloadBuilt)
            /\ \A i \in 1..Len(cmds) : i # sel => cmds'[i] = cmds[i]]_vars

\* a command was shipped to a device that has a younger Pending command,
\* while the other device has a Pending command that is older than both
C9_Witness ==
    /\ lastOp.op = "process_device_command"
    /\ lastOp.shipped
    /\ \E i \in 1..Len(cmds) :
         /\ i > lastOp.selected
         /\ cmds[i].biometric_device = lastOp.device
         /\ cmds[i].status = "Pending"
    /\ \E i \in 1..Len(cmds) :
         /\ i < lastOp.selected
         /\ cmds[i].biometric_device # lastOp.device
         /\ cmds[i].status = "Pending"

\* ------------------------------------------------------------------------
\* C10: a poll that finds no Pending command changes nothing; a poll that
\* ships a payload changes only the shipped command, whose attempt count
\* goes up by one: no command is created and the status, attempt count and
\* log of every other command are unchanged.
\* ------------------------------------------------------------------------
C10_PollFrame ==
    [][lastOp'.op = "process_device_command" =>
        /\ Len(cmds') = Len(cmds)
        /\ hasPending' = hasPending
        /\ lastOp'.selected = 0 => cmds' = cmds
        /\ lastOp'.shipped =>
            /\ \A i \in 1..Len(cmds) : i # lastOp'.selected =>
                 /\ cmds'[i].status = cmds[i].status
                 /\ cmds'[i].no_of_attempts = cmds[i].no_of_attempts
                 /\ cmds'[i].device_response = cmds[i].device_response
                 /\ cmds'[i] = cmds[i]
            /\ cmds'[lastOp'.selected].no_of_attempts
                 = cmds[lastOp'.selected].no_of_attempts + 1
            /\ cmds'[lastOp'.selected].device_response
                 = cmds[lastOp'.selected].device_response]_vars

\* a command was shipped for the second time while the same device and the
\* other device both have further Pending commands
C10_Witness ==
    /\ lastOp.op = "process_device_command"
    /\ lastOp.shipped
    /\ cmds[lastOp.selected].no_of_attempts = 2
    /\ \E i \in 1..Len(cmds) :
         /\ i # lastOp.selected
         /\ cmds[i].biometric_device = lastOp.device
         /\ cmds[i].status = "Pending"
    /\ \E i \in 1..Len(cmds) :
         /\ cmds[i].biometric_device # lastOp.device
         /\ cmds[i].status = "Pending"

\* ------------------------------------------------------------------------
\* The life of a command: operators used by its properties
\* ------------------------------------------------------------------------
\* the step was a poll whose build of command i failed
BuildFailedStep(i) ==
    /\ lastOp'.op = "process_device_command"
    /\ lastOp'.name = i
    /\ i \in 1..Len(cmds)
    /\ BuildByBrand(i, cmds[i], users).raised

\* the command's age has reached the force-close window at time t
AgedOut(doc, cfg, t) ==
    /\ cfg.force_close_after # 0
    /\ doc.initiated_on # None
    /\ doc.initiated_on + cfg.force_close_after <= t

\* one attempt more, and one more log line stamped with the current time
CountedAndLogged(i) ==
    /\ cmds'[i].no_of_attempts = cmds[i].no_of_attempts + 1
    /\ Len(cmds'[i].device_response) = Len(cmds[i].device_response) + 1
    /\ SubSeq(cmds'[i].device_response, 1, Len(cmds[i].device_response))
           = cmds[i].device_response
    /\ cmds'[i].device_response[Len(cmds'[i].device_response)].at = now

StaysPending(i) == cmds'[i].status = "Pending" /\ cmds'[i].closed_on = None

BecomesFailed(i) == cmds'[i].status = "Failed" /\ cmds'[i].closed_on # None

\* C11 as stated: a recorded attempt failure counts one attempt and appends
\* one timestamped line; at the maximum (the configured one, 3 when none is
\* configured) the command becomes Failed with a closed time, below it the
\* command stays Pending with no closed time
C11_FailedOnlyAtMaximum ==
    [][\A i \in 1..Len(cmds) :
          BuildFailedStep(i) =>
              /\ CountedAndLogged(i)
              /\ IF cmds'[i].no_of_attempts >= HandlerMaxAttempts(settings)
                 THEN BecomesFailed(i)
                 ELSE StaysPending(i)]_vars

\* C11, amended: a recorded attempt failure counts one attempt and appends
\* one timestamped line; the command becomes Failed with a closed time when
\* the new count has reached the maximum or when its age has reached the
\* force-close window, and stays Pending with no closed time otherwise
C11_AttemptFailure ==
    [][\A i \in 1..Len(cmds) :
          BuildFailedStep(i) =>
              /\ CountedAndLogged(i)
              /\ IF \/ cmds'[i].no_of_attempts >= HandlerMaxAttempts(settings)
                    \/ AgedOut(cmds[i], settings, now)
                 THEN BecomesFailed(i)
                 ELSE StaysPending(i)]_vars

\* a build failure has just been recorded below the maximum on a command
\* that had aged out, and the command is Failed
C11_Witness ==
    /\ lastOp.op = "process_device_command"
    /\ lastOp.name # 0
    /\ ~lastOp.shipped
    /\ cmds[lastOp.name].no_of_attempts < HandlerMaxAttempts(settings)
    /\ cmds[lastOp.name].device_response # <<>>
    /\ cmds[lastOp.name].status = "Failed"

\* the step was a send_cmd_result naming command i
EbknAckStep(i) ==
    /\ lastOp'.op = "send_cmd_result"
    /\ lastOp'.name = i
    /\ i \in 1..Len(cmds)

\* C12: a success acknowledgement without block index of a Pending command
\* leaves the command Success with a closed time, whatever its attempt count
C12_SuccessAckCloses ==
    [][\A i \in 1..Len(cmds) :
          (/\ EbknAckStep(i)
           /\ lastOp'.return_code = "OK"
           /\ lastOp'.blk_no = NoHeader
           /\ cmds[i].status = "Pending")
          => (cmds'[i].status = "Success" /\ cmds'[i].closed_on # None)]_vars

\* one more log line stamped with the current time, the attempt count as it was
LoggedNotCounted(i) ==
    /\ cmds'[i].no_of_attempts = cmds[i].no_of_attempts
    /\ Len(cmds'[i].device_response) = Len(cmds[i].device_response) + 1
    /\ SubSeq(cmds'[i].device_response, 1, Len(cmds[i].device_response))
           = cmds[i].device_response
    /\ cmds'[i].device_response[Len(cmds'[i].device_response)].at = now

\* the step was a success acknowledgement carrying a block index, of the
\* Pending command i
ChunkAckStep(i) ==
    /\ EbknAckStep(i)
    /\ lastOp'.return_code = "OK"
    /\ lastOp'.blk_no # NoHeader
    /\ cmds[i].status = "Pending"

\* C13 as stated: a success acknowledgement with a block index stores the
\* index as the last acknowledged block, appends a log line, does not count
\* an attempt and leaves the status Pending
C13_ChunkAckStaysPending ==
    [][\A i \in 1..Len(cmds) :
          ChunkAckStep(i) =>
              /\ cmds'[i].last_sent_data_block = IntOfHeader(lastOp'.blk_no)
              /\ LoggedNotCounted(i)
              /\ StaysPending(i)]_vars

\* C13, amended: a success acknowledgement with a block index stores the
\* index as the last acknowledged block, appends a log line and does not
\* count an attempt; the status stays Pending unless the command's age has
\* reached the force-close window, and then the command is Failed with a
\* closed time
C13_ChunkAck ==
    [][\A i \in 1..Len(cmds) :
          ChunkAckStep(i) =>
              /\ cmds'[i].last_sent_data_block = IntOfHeader(lastOp'.blk_no)
              /\ LoggedNotCounted(i)
              /\ IF AgedOut(cmds[i], settings, now)
                 THEN BecomesFailed(i)
                 ELSE StaysPending(i)]_vars

\* a block has just been acknowledged on a command that is still Pending
C13_Witness ==
    /\ lastOp.op = "send_cmd_result"
    /\ lastOp.return_code = "OK"
    /\ lastOp.blk_no = "0"
    /\ lastOp.name \in 1..Len(cmds)
    /\ cmds[lastOp.name].status = "Pending"
    /\ cmds[lastOp.name].last_sent_data_block = 0
    /\ cmds[lastOp.name].no_of_attempts = 1
    /\ Len(cmds[lastOp.name].device_response) = 1

\* the step was a non-success acknowledgement of the Pending command i by
\* the handler of the command's vendor
FailedAckStep(i) ==
    /\ i \in 1..Len(cmds)
    /\ lastOp'.name = i
    /\ \/ /\ lastOp'.op = "send_cmd_result"
          /\ lastOp'.return_code # "OK"
          /\ cmds[i].brand = "EBKN"
       \/ /\ lastOp'.op = "devicecmd"
          /\ lastOp'.return_code # "0"
          /\ cmds[i].brand = "ZKTeco"
    /\ cmds[i].status = "Pending"

\* C14: a non-success acknowledgement of either vendor counts one attempt
\* and appends a log line; the command becomes Failed only when the count
\* has reached the configured maximum, and below it the command stays Pending
C14_FailedAckIsAttemptFailure ==
    [][\A i \in 1..Len(cmds) :
          FailedAckStep(i) =>
              /\ cmds'[i].no_of_attempts = cmds[i].no_of_attempts + 1
              /\ Len(cmds'[i].device_response) = Len(cmds[i].device_response) + 1
              /\ IF /\ settings.maximum_no_of_attempts_for_commands # 0
                    /\ cmds'[i].no_of_attempts >=
                           settings.maximum_no_of_attempts_for_commands
                 THEN BecomesFailed(i)
                 ELSE StaysPending(i)]_vars

Terminal == {"Success", "Failed"}

\* C15: once a command is Success or Failed no step changes its status
C15_TerminalIsFinal ==
    [][\A i \in 1..Len(cmds) :
          cmds[i].status \in Terminal => cmds'[i].status = cmds[i].status]_vars

\* C16 as stated: a Pending command whose age has reached the force-close
\* window is Failed: no command is Pending at or after its creation time
\* plus the window
C16_NoPendingPastWindow ==
    \A i \in 1..Len(cmds) :
        cmds[i].status = "Pending" => ~AgedOut(cmds[i], settings, now)

\* the step was an operation on command i that saves it: a poll that
\* selected it or an acknowledgement naming it
SavedStep(i) ==
    /\ i \in 1..Len(cmds)
    /\ lastOp'.name = i
    /\ lastOp'.op \in {"process_device_command", "send_cmd_result", "devicecmd"}

\* the step was an acknowledgement reporting success that closes the command
ClosingAckStep ==
    \/ /\ lastOp'.op = "send_cmd_result"
       /\ lastOp'.return_code = "OK"
       /\ lastOp'.blk_no = NoHeader
    \/ lastOp'.op = "devicecmd" /\ lastOp'.return_code = "0"

\* C16, amended: the next operation that saves a Pending command whose age
\* has reached the force-close window (a dispatch, a build failure or an
\* acknowledgement) closes it with a closed time, whatever its attempt
\* count, and as Failed unless that operation is a success acknowledgement;
\* nothing closes the command before such an operation
C16_ForceCloseOnSave ==
    [][\A i \in 1..Len(cmds) :
          (cmds[i].status = "Pending" /\ AgedOut(cmds[i], settings, now)) =>
              IF SavedStep(i)
              THEN /\ cmds'[i].status \in Terminal
                   /\ cmds'[i].closed_on = now
                   /\ cmds'[i].status = "Success" => ClosingAckStep
              ELSE cmds'[i] = cmds[i]]_vars

\* a command never dispatched has just been failed by its age, on the save
\* of a block acknowledgement
C16_Witness ==
    /\ lastOp.op = "send_cmd_result"
    /\ lastOp.return_code = "OK"
    /\ lastOp.blk_no # NoHeader
    /\ lastOp.name \in 1..Len(cmds)
    /\ cmds[lastOp.name].no_of_attempts = 0
    /\ cmds[lastOp.name].status = "Failed"
    /\ cmds[lastOp.name].closed_on = now
    /\ AgedOut(cmds[lastOp.name], settings, now)

\* C17: with a maximum attempt count configured, a command whose attempt
\* count has reached the maximum is never Pending: it is Failed and has a
\* closed time, whichever operation raised the count
C17_NoPendingAtMaximum ==
    settings.maximum_no_of_attempts_for_commands # 0 =>
        \A i \in 1..Len(cmds) :
            cmds[i].no_of_attempts >= settings.maximum_no_of_attempts_for_commands
            => (cmds[i].status = "Failed" /\ cmds[i].closed_on # None)

\* a dispatch has just raised the attempt count to the configured maximum:
\* the payload was shipped and the command is Failed
C17_Witness ==
    /\ settings.maximum_no_of_attempts_for_commands # 0
    /\ lastOp.op = "process_device_command"
    /\ lastOp.shipped
    /\ lastOp.name \in 1..Len(cmds)
    /\ cmds[lastOp.name].no_of_attempts = settings.maximum_no_of_attempts_for_commands
    /\ cmds[lastOp.name].status = "Failed"
    /\ cmds[lastOp.name].device_response = <<>>

Limited ==
    \/ settings.maximum_no_of_attempts_for_commands # 0
    \/ settings.force_close_after # 0

RECURSIVE ConcatBlobs(_, _)
ConcatBlobs(segs, n) ==
    IF n = 0 THEN <<>> ELSE ConcatBlobs(segs, n - 1) \o segs[n].blob

\* the payload has been decoded and no error was raised
DecodedOk == decoded # NotDecoded /\ decoded.error = ""

\* where the first opening brace and its depth-matching closing brace stand
\* among the bytes of the payload (a brace is one byte in UTF-8 and never
\* part of a longer sequence); 0 when there is none
FirstBraceByte == Find(raw, LBrace, 1)

ClosingBraceByte ==
    IF FirstBraceByte = 0 THEN 0 ELSE MatchingBrace(raw, FirstBraceByte, 0)

\* the payload has been decoded and it holds a complete envelope
DecodedEnvelope == decoded # NotDecoded /\ ClosingBraceByte # 0

\* one segment per placeholder in encounter order, the first N-1 of
\* floor(L/N) bytes, the last with the rest, together the trailing data
SplitInOrder ==
    LET N == Len(decoded.placeholders)
        L == Len(decoded.remaining)
    IN  /\ Len(decoded.segments) = N
        /\ \A k \in 1..Len(decoded.segments) :
               /\ decoded.segments[k].ph = decoded.placeholders[k]
               /\ Len(decoded.segments[k].blob) =
                      IF k < N THEN L \div N ELSE L - (N - 1) * (L \div N)
        /\ ConcatBlobs(decoded.segments, Len(decoded.segments)) = decoded.remaining

\* C19 as stated: with N >= 1 placeholders decode returns N segments in
\* encounter order, the first N-1 of floor(L/N) bytes and the last with all
\* remaining bytes, and their concatenation is the trailing data; with no
\* placeholder it returns no segments and raises no error
C19_SplitPerPlaceholder ==
    DecodedEnvelope =>
        /\ decoded.error = ""
        /\ IF decoded.placeholders = <<>>
           THEN decoded.segments = <<>>
           ELSE SplitInOrder

\* the placeholders met have pairwise distinct names
DistinctNames ==
    \A j, k \in 1..Len(decoded.placeholders) :
        decoded.placeholders[j] = decoded.placeholders[k] => j = k

\* C19, amended: with N >= 1 placeholders of pairwise distinct names decode
\* returns N segments in encounter order, the first N-1 of floor(L/N) bytes
\* and the last with all remaining bytes, and their concatenation is the
\* trailing data; with no placeholder it returns no segments and raises no
\* error
C19_SplitPerDistinctPlaceholder ==
    DecodedEnvelope =>
        /\ decoded.error = ""
        /\ IF decoded.placeholders = <<>>
           THEN decoded.segments = <<>>
           ELSE DistinctNames => SplitInOrder

\* 11 trailing bytes and three placeholders: segments of 3, 3 and 5 bytes
C19_Witness ==
    /\ DecodedOk
    /\ Len(decoded.remaining) = 11
    /\ decoded.placeholders = <<"BIN_1", "BIN_2", "BIN_3">>
    /\ Len(decoded.segments) = 3
    /\ Len(decoded.segments[1].blob) = 3
    /\ Len(decoded.segments[2].blob) = 3
    /\ Len(decoded.segments[3].blob) = 5

\* C20: the envelope taken is the text from the first opening brace up to
\* its depth-matching closing brace, and the binary data taken are exactly
\* the bytes of the payload that follow that closing brace
C20_BinaryFollowsEnvelope ==
    DecodedEnvelope =>
        /\ decoded.error = ""
        /\ decoded.meta = Utf8Decode(SubSeq(raw, FirstBraceByte, ClosingBraceByte))
        /\ decoded.remaining = SubSeq(raw, ClosingBraceByte + 1, Len(raw))

\* ------------------------------------------------------------------------
\* Inlining: operators used by its properties
\* ------------------------------------------------------------------------
\* the bytes a base64 text stands for
RECURSIVE b64decode(_)
b64decode(cs) ==
    IF Len(cs) < 4 THEN <<>>
    ELSE IF cs[3] = Pad THEN <<cs[1] * 4 + cs[2] \div 16>>
    ELSE IF cs[4] = Pad
         THEN <<cs[1] * 4 + cs[2] \div 16, (cs[2] % 16) * 16 + cs[3] \div 4>>
    ELSE <<cs[1] * 4 + cs[2] \div 16, (cs[2] % 16) * 16 + cs[3] \div 4,
           (cs[3] % 4) * 64 + cs[4]>> \o b64decode(SubSeq(cs, 5, Len(cs)))

\* where the placeholders stand in the envelope, in encounter order
PlaceholderPositions(meta) ==
    SelectSeq([k \in 1..Len(meta) |-> k], LAMBDA k : PlaceholderOf(meta[k]) # "")

\* the i-th placeholder met is replaced by the base64 text of the i-th
\* segment of the split, and every other member is as it was
InlinedInOrder ==
    LET pos == PlaceholderPositions(decoded.meta)
        N == Len(pos)
    IN  /\ Len(inlined) = Len(decoded.meta)
        /\ \A i \in 1..N :
               /\ inlined[pos[i]].replaced
               /\ inlined[pos[i]].text = b64encode(Blob(decoded.remaining, N, i))
               /\ b64decode(inlined[pos[i]].text) = Blob(decoded.remaining, N, i)
        /\ \A k \in 1..Len(decoded.meta) :
               PlaceholderOf(decoded.meta[k]) = "" =>
                   inlined[k] = [replaced |-> FALSE, text |-> <<decoded.meta[k]>>]

\* C22 as stated: after decode followed by inline every placeholder of the
\* envelope is replaced by the base64 encoding of its own segment, the i-th
\* placeholder in encounter order by the i-th segment of the split, also
\* when a placeholder name occurs more than once, and every other value is
\* unchanged
C22_InlinedPerPlaceholder == DecodedOk => InlinedInOrder

\* C22, amended: when the placeholder names are pairwise distinct, the i-th
\* placeholder in encounter order is replaced by the base64 encoding of the
\* i-th segment of the split and every other value is unchanged; in every
\* case each placeholder is replaced by the base64 encoding of the segment
\* kept under its name, and every other value is unchanged
C22_InlinedPerDistinctPlaceholder ==
    DecodedOk =>
        /\ DistinctNames => InlinedInOrder
        /\ Len(inlined) = Len(decoded.meta)
        /\ \A k \in 1..Len(decoded.meta) :
               IF PlaceholderOf(decoded.meta[k]) # ""
               THEN /\ inlined[k].replaced
                    /\ \E j \in 1..Len(decoded.segments) :
                           /\ decoded.segments[j].ph = PlaceholderOf(decoded.meta[k])
                           /\ b64decode(inlined[k].text) = decoded.segments[j].blob
               ELSE inlined[k] = [replaced |-> FALSE, text |-> <<decoded.meta[k]>>]

\* an envelope of BIN_2, an ordinary member and BIN_1 followed by the bytes
\* 1..6: BIN_2 becomes "AQID" and BIN_1 becomes "BAUG"
C22_Witness ==
    /\ DecodedOk
    /\ decoded.meta = <<LBrace, Ph2, Plain, Ph1, RBrace>>
    /\ decoded.remaining = <<1, 2, 3, 4, 5, 6>>
    /\ inlined = <<[replaced |-> FALSE, text |-> <<LBrace>>],
                   [replaced |-> TRUE, text |-> <<0, 16, 8, 3>>],
                   [replaced |-> FALSE, text |-> <<Plain>>],
                   [replaced |-> TRUE, text |-> <<1, 0, 20, 6>>],
                   [replaced |-> FALSE, text |-> <<RBrace>>]>>

\* ------------------------------------------------------------------------
\* The builders: operators used by their properties
\* ------------------------------------------------------------------------
\* the number a sequence of ASCII digits reads as
RECURSIVE DecimalValue(_)
DecimalValue(chars) ==
    IF chars = <<>> THEN 0
    ELSE 10 * DecimalValue(SubSeq(chars, 1, Len(chars) - 1)) + (chars[Len(chars)] - 48)

\* the text {"user_id": "dddddddd"} whose eight digits read as n
IsUserIdJson(body, n) ==
    /\ body.type = "str"
    /\ Len(body.val) = 23
    /\ SubSeq(body.val, 1, 13) = <<123, 34, 117, 115, 101, 114, 95, 105, 100, 34, 58, 32, 34>>
    /\ \A i \in 14..21 : body.val[i] \in 48..57
    /\ DecimalValue(SubSeq(body.val, 14, 21)) = n
    /\ SubSeq(body.val, 22, 23) = <<34, 125>>

\* the last operation was a poll that selected an EBKN command of the given
\* type whose user has a document
EbknPolled(command_type) ==
    /\ lastOp.op = "process_device_command"
    /\ lastOp.selected # 0
    /\ cmds[lastOp.selected].brand = "EBKN"
    /\ cmds[lastOp.selected].command_type = command_type
    /\ cmds[lastOp.selected].biometric_device_user \in DOMAIN users

PolledUser == users[cmds[lastOp.selected].biometric_device_user]

\* C23: for the binary vendor Delete User builds the JSON body {user_id:
\* the user id zero-padded to 8 digits} tagged DELETE_USER, Get Enroll Data
\* the same body tagged GET_USER_INFO, Enroll User the stored template bytes
\* unchanged tagged SET_USER_INFO, and the transaction id is in every case
\* the name of the command
C23_EbknPayloads ==
    /\ EbknPolled("Delete User") =>
           /\ lastOp.shipped
           /\ lastOp.payload.cmd_code = "DELETE_USER"
           /\ IsUserIdJson(lastOp.payload.body, PolledUser.user_id)
           /\ lastOp.payload.trans_id = lastOp.selected
    /\ EbknPolled("Get Enroll Data") =>
           /\ lastOp.shipped
           /\ lastOp.payload.cmd_code = "GET_USER_INFO"
           /\ IsUserIdJson(lastOp.payload.body, PolledUser.user_id)
           /\ lastOp.payload.trans_id = lastOp.selected
    /\ (EbknPolled("Enroll User") /\ lastOp.shipped) =>
           /\ lastOp.payload.cmd_code = "SET_USER_INFO"
           /\ lastOp.payload.body = [type |-> "bytes", val |-> PolledUser.ebkn_enroll_data]
           /\ PolledUser.ebkn_enroll_data # NoBlob
           /\ lastOp.payload.trans_id = lastOp.selected

\* a Delete User command of user 12 has been shipped with the digits 00000012
C23_Witness ==
    /\ EbknPolled("Delete User")
    /\ lastOp.shipped
    /\ PolledUser.user_id = 12
    /\ SubSeq(lastOp.payload.body.val, 14, 21) = <<48, 48, 48, 48, 48, 48, 49, 50>>
    /\ lastOp.payload.trans_id = 1

\* the step was a poll that selected command i
PollStep(i) ==
    /\ lastOp'.op = "process_device_command"
    /\ lastOp'.selected = i
    /\ i \in 1..Len(cmds)

\* the user of the command has no document, or its brand and command type
\* are not a combination the builders know
Unbuildable(doc) ==
    \/ doc.biometric_device_user \notin DOMAIN users
    \/ doc.brand \notin {"EBKN", "ZKTeco", "Hikvision"}
    \/ doc.command_type \notin Kinds

\* C24: a build whose user cannot be resolved, or whose command type and
\* brand are no supported combination, ships nothing and is recorded on the
\* command as a failure (one attempt more, one error line more); no poll
\* ends with no payload and no recorded failure
C24_BuildFailureRecorded ==
    [][\A i \in 1..Len(cmds) :
          /\ (PollStep(i) /\ Unbuildable(cmds[i])) =>
                 ~lastOp'.shipped /\ CountedAndLogged(i)
          /\ (PollStep(i) /\ ~lastOp'.shipped) => CountedAndLogged(i)]_vars

\* the step was a poll that selected command i, an Enroll User command of a
\* supported brand whose user has a document and no stored template
TemplateMissingStep(i) ==
    /\ PollStep(i)
    /\ cmds[i].command_type = "Enroll User"
    /\ cmds[i].biometric_device_user \in DOMAIN users
    /\ \/ /\ cmds[i].brand = "EBKN"
          /\ users[cmds[i].biometric_device_user].ebkn_enroll_data = NoBlob
       \/ /\ cmds[i].brand = "ZKTeco"
          /\ users[cmds[i].biometric_device_user].zkteco_enroll_data = NoBlob
       \/ /\ cmds[i].brand = "Hikvision"
          /\ users[cmds[i].biometric_device_user].hikvision_enroll_data = NoBlob

\* C25 as stated: the build of an Enroll User command for a user with no
\* stored template ships nothing, counts exactly one attempt and logs one
\* error line; below the maximum the command stays Pending, to be built
\* again by the next poll of its device, and at the maximum it is Failed
C25_RetriedBelowMaximum ==
    [][\A i \in 1..Len(cmds) :
          TemplateMissingStep(i) =>
              /\ ~lastOp'.shipped
              /\ CountedAndLogged(i)
              /\ IF cmds'[i].no_of_attempts >= HandlerMaxAttempts(settings)
                 THEN BecomesFailed(i)
                 ELSE /\ StaysPending(i)
                      /\ NextCommand(cmds', cmds[i].biometric_device) = i]_vars

\* C25, amended: the build ships nothing, counts exactly one attempt and
\* logs one error line; the command is Failed when the maximum is reached
\* or when its age has reached the force-close window, and otherwise stays
\* Pending, to be built again by the next poll of its device
C25_TemplateMissing ==
    [][\A i \in 1..Len(cmds) :
          TemplateMissingStep(i) =>
              /\ ~lastOp'.shipped
              /\ CountedAndLogged(i)
              /\ IF \/ cmds'[i].no_of_attempts >= HandlerMaxAttempts(settings)
                    \/ AgedOut(cmds[i], settings, now)
                 THEN BecomesFailed(i)
                 ELSE /\ StaysPending(i)
                      /\ NextCommand(cmds', cmds[i].biometric_device) = i]_vars

\* the enrolment of U2, who has no template, has failed to build twice with
\* a maximum of two: two attempts, two error lines, Failed, nothing shipped
C25_Witness ==
    /\ lastOp.op = "process_device_command"
    /\ lastOp.selected = 1
    /\ ~lastOp.shipped
    /\ cmds[1].command_type = "Enroll User"
    /\ cmds[1].biometric_device_user = "U2"
    /\ cmds[1].brand = "EBKN"
    /\ cmds[1].no_of_attempts = 2
    /\ Len(cmds[1].device_response) = 2
    /\ cmds[1].status = "Failed"
    /\ now = 0

\* ------------------------------------------------------------------------
\* Properties of the adapters
\* ------------------------------------------------------------------------
\* the step is one whole request to the EBKN adapter
EbknStep == lastOp'.op = "handle_ebkn" /\ lastOp'.served = lastOp.served + 1

\* the payload has no opening brace, or the braces opened never balance
Malformed(bs) ==
    LET text == Utf8Decode(bs)
    IN  \/ \A k \in 1..Len(text) : text[k] # LBrace
        \/ MatchingBrace(text, Find(text, LBrace, 1), 0) = 0

\* C21: when the payload given to decoding has no opening brace or braces
\* that never balance, decoding fails with the error of a malformed
\* envelope, the request is answered with status 400 and response_code
\* ERROR, no request handler is called, and no command, user or check-in
\* record changes
C21_MalformedRejected ==
    [][(EbknStep /\ handed' # NoPayload /\ Malformed(handed')) =>
          /\ decoded'.error \in {"no JSON opening brace found", "unbalanced JSON braces"}
          /\ reply'.status = 400
          /\ reply'.response_code = "ERROR"
          /\ lastOp'.handler = ""
          /\ cmds' = cmds
          /\ users' = users
          /\ checkins' = checkins]_vars

\* a request with a known request code and device, whose envelope is never
\* closed, was answered while a command was waiting
C21_Witness ==
    /\ lastOp.op = "handle_ebkn"
    /\ lastOp.request = REQ_SEND_CMD_RESULT
    /\ lastOp.trans_id = 1
    /\ handed = <<LBrace, Plain>>
    /\ decoded.error = "unbalanced JSON braces"
    /\ Len(cmds) = 1
    /\ reply.status = 400

\* the reply carries the payload of an EBKN command that a poll shipped
OutboundBody ==
    /\ lastOp.op = "handle_ebkn"
    /\ lastOp.shipped
    /\ cmds[lastOp.selected].brand = "EBKN"
    /\ reply.status = 200
    /\ reply.response_code = "OK"

\* the number whose four-byte little-endian encoding starts bs
LE32Value(bs) == bs[1] + 256 * bs[2] + 65536 * bs[3] + 16777216 * bs[4]

\* C26: an outbound body that is text of n bytes is sent as n+5 bytes, the
\* four-byte little-endian encoding of n+1, the payload bytes and one NUL
\* byte; an outbound body that is bytes is sent unchanged
C26_OutboundBodyFraming ==
    OutboundBody =>
        LET body == lastOp.payload.body
            text == Utf8Encode(body.val)
            n == Len(text)
        IN  IF body.type = "str"
            THEN /\ Len(reply.body) = n + 5
                 /\ \A k \in 1..4 : reply.body[k] \in 0..255
                 /\ LE32Value(reply.body) = n + 1
                 /\ SubSeq(reply.body, 5, n + 4) = text
                 /\ reply.body[n + 5] = 0
            ELSE body.type = "bytes" /\ reply.body = body.val

\* a Delete User command was shipped: a text of 23 bytes, sent as 28
C26_Witness ==
    /\ OutboundBody
    /\ lastOp.payload.body.type = "str"
    /\ lastOp.payload.cmd_code = "DELETE_USER"
    /\ Len(reply.body) = 28
    /\ SubSeq(reply.body, 1, 4) = <<24, 0, 0, 0>>

\* the step is a receive_cmd poll without blk_no that reached its handler
\* with no collaborator failing, from a device whose oldest Pending command
\* i is an EBKN Enroll User for a user with a template on file
EnrollPollStep(i) ==
    /\ EbknStep
    /\ lastOp'.request = REQ_RECV_CMD
    /\ lastOp'.handler = REQ_RECV_CMD
    /\ lastOp'.blk_no = NoHeader
    /\ lastOp'.fault = "none"
    /\ i = NextCommand(cmds, lastOp'.device)
    /\ cmds[i].command_type = "Enroll User"
    /\ cmds[i].brand = "EBKN"
    /\ users[cmds[i].biometric_device_user].ebkn_enroll_data # NoBlob

C28_TwoReplyForms ==
    lastOp.op = "handle_ebkn" =>
        \/ reply.status = 200 /\ reply.response_code = "OK"
        \/ /\ reply.status = 400
           /\ reply.response_code = "ERROR"
           /\ \E msg \in {"Missing request_code or dev_id", "Block sequence mismatch",
                          "Unable to read spooled data", "Unsupported request_code",
                          "Internal server error", "realtime_glog error",
                          "check-in failed", "user_id missing",
                          "realtime_enroll error"} : reply = _fail(msg)

\* C29: no request to handle_ebkn or handle_zkteco, whatever collaborator
\* fails during it, ends with an exception leaving the adapter
C29_NoExceptionEscapes ==
    lastOp.op \in {"handle_ebkn", "handle_zkteco"} => ~lastOp.raised

\* C30: a send_cmd_result whose trans_id names no command is answered with
\* status 200 and response_code OK, and leaves every command as it was
C30_UnknownTransId ==
    [][(/\ EbknStep
        /\ lastOp'.handler = REQ_SEND_CMD_RESULT
        /\ lastOp'.fault = "none"
        /\ lastOp'.trans_id \notin 1..Len(cmds)) =>
           /\ reply'.status = 200
           /\ reply'.response_code = "OK"
           /\ reply'.trans_id = lastOp'.trans_id
           /\ cmds' = cmds]_vars

\* a result naming the command after the only one was acknowledged
C30_Witness ==
    /\ lastOp.op = "handle_ebkn"
    /\ lastOp.handler = REQ_SEND_CMD_RESULT
    /\ lastOp.fault = "none"
    /\ Len(cmds) = 1
    /\ lastOp.trans_id = 2
    /\ cmds[1].status = "Pending"
    /\ reply.status = 200

\* ------------------------------------------------------------------------
\* Properties of sync_device_attendance
\* ------------------------------------------------------------------------
\* C31: when the device reports a total of matching events above the
\* ceiling, the sync ends with an error result, no batch request is made
\* and no check-in is created
C31_CeilingRejects ==
    sync.total > Ceiling =>
        /\ sync.pc = "done"
        /\ sync.result = "error"
        /\ sync.requests = 0
        /\ checkins = <<>>

\* the device reported one event more than the ceiling allows
C31_Witness ==
    /\ sync.total = Ceiling + 1
    /\ sync.pc = "done"
    /\ sync.result = "error"

\* ceil(a / b)
CeilDiv(a, b) == (a + b - 1) \div b

\* C39: after the count query a run makes at most
\* ceil(totalMatches / 10) + 1 batch requests
C39_BoundedBatches ==
    sync.pc # "idle" => sync.requests <= CeilDiv(sync.total, BatchSize) + 1

\* ------------------------------------------------------------------------
\* Properties of the listener
\* ------------------------------------------------------------------------
\* C33: the status is "disabled" by default and after a disable, and after
\* an enable_listener_logic that reports success get_status_logic reports
\* "enabled"
C33_EnabledAfterSuccess ==
    /\ listener.last = "" => get_status_logic(listener) = "disabled"
    /\ listener.last = "disable" /\ listener.ok => get_status_logic(listener) = "disabled"
    /\ listener.last = "enable" /\ listener.ok => get_status_logic(listener) = "enabled"

\* ------------------------------------------------------------------------
\* Properties of a dispatch and of an acknowledgement
\* ------------------------------------------------------------------------
\* C35: a payload is handed out only for a command that is still Pending
\* once the dispatch has been recorded: the call that returns a payload has
\* not moved its command to Failed
C35_ShippedStaysPending ==
    lastOp.op = "process_device_command" /\ lastOp.shipped =>
        cmds[lastOp.name].status = "Pending"

\* a request of a device has been answered by the handler of an
\* acknowledgement: send_cmd_result or devicecmd
AckStep ==
    /\ lastOp'.served = lastOp.served + 1
    /\ lastOp'.handler \in {REQ_SEND_CMD_RESULT, "POST /iclock/devicecmd"}

\* C36: an acknowledgement received from a device changes only commands
\* whose target device is that device, whatever transaction id it sends
C36_AckOwnCommandsOnly ==
    [][AckStep =>
           \A n \in 1..Len(cmds) :
               cmds[n].biometric_device # lastOp'.device => cmds'[n] = cmds[n]]_vars

\* ------------------------------------------------------------------------
\* Isolation of the reassembly sessions
\* ------------------------------------------------------------------------
\* the key of the request worker w is handling in this step
ActingKey(w) ==
    IF wk[w].pc = "idle"
    THEN _seq_key(wk'[w].dev_id, wk'[w].request_code)
    ELSE _seq_key(wk[w].dev_id, wk[w].request_code)

\* the buffer of a session: its file, or no file
BufferOf(files, dev_id, request_code) ==
    IF _partial_path(dev_id, request_code) \in DOMAIN files
    THEN <<"file", files[_partial_path(dev_id, request_code)]>>
    ELSE <<"no file">>

\* C38: a step of a worker handling a block for one (device, request-type)
\* pair changes neither the buffer nor the last-block record of another
\* pair, also while another worker handles a request
C38_SessionsIsolated ==
    [][\A w \in Workers :
           wk'[w] # wk[w] =>
               \A d \in DevIds, r \in ReqCodes :
                   _seq_key(d, r) # ActingKey(w) =>
                       /\ _get_last_block(blockMap', d, r) = _get_last_block(blockMap, d, r)
                       /\ BufferOf(partial', d, r) = BufferOf(partial, d, r)]_vars

\* ------------------------------------------------------------------------
\* Properties of the user documents
\* ------------------------------------------------------------------------
\* the documents with that user_id
UsersWithPin(us, pin) == {n \in DOMAIN us : us[n].user_id = pin}

\* get_or_create_user_by_pin was called with a PIN that is not empty
LookupStep ==
    /\ lastOp'.ops = lastOp.ops + 1
    /\ lastOp'.op = "get_or_create_user_by_pin"
    /\ lastOp'.pin # ""

\* C32: get_or_create_user_by_pin is idempotent: at any time at most one
\* document has a given user_id; after a call with a PIN that is not empty
\* exactly one has it and it is the one returned; the first call creates
\* it, a later call returns the document that was there and writes nothing
C32_LookupIdempotent ==
    /\ \A pin \in Pins : Cardinality(UsersWithPin(users, pin)) <= 1
    /\ [][LookupStep =>
              /\ ~lastOp'.raised
              /\ UsersWithPin(users', lastOp'.pin) = {lastOp'.name}
              /\ lastOp'.created = (UsersWithPin(users, lastOp'.pin) = {})
              /\ UsersWithPin(users, lastOp'.pin) # {} =>
                     /\ users' = users
                     /\ UsersWithPin(users, lastOp'.pin) = {lastOp'.name}]_vars

\* a second call with the PIN of a document returned that document
C32_Witness ==
    /\ lastOp.op = "get_or_create_user_by_pin"
    /\ lastOp.pin \in Pins
    /\ ~lastOp.created
    /\ lastOp.name # NoName
    /\ users[lastOp.name].user_id = lastOp.pin
    /\ lastOp.ops >= 2

\* a device has uploaded a template that differs from the one on file
NewTemplateStep ==
    /\ lastOp'.ops = lastOp.ops + 1
    /\ lastOp'.op \in {"_process_fingerprint_data", "_store_get_user_info_blob"}
    /\ \/ lastOp'.created
       \/ BlobOf(users'[lastOp'.name], lastOp'.brand) # BlobOf(users[lastOp'.name], lastOp'.brand)

\* the commands of cs that are Pending Enroll User commands for the user
EnrollTargets(cs, name, brand) ==
    {cs[n].biometric_device : n \in {k \in 1..Len(cs) : /\ cs[k].status = "Pending"
                                                         /\ cs[k].command_type = "Enroll User"
                                                         /\ cs[k].biometric_device_user = name
                                                         /\ cs[k].brand = brand}}

\* C34: when a device supplies a new template, Enroll User commands are
\* queued for the other devices of that vendor assigned to the user, and
\* none is created for the supplying device
C34_NoEchoToSource ==
    [][NewTemplateStep =>
           /\ \A r \in users'[lastOp'.name].devices :
                  (r.brand = lastOp'.brand /\ r.biometric_device # lastOp'.device) =>
                      r.biometric_device \in EnrollTargets(cmds', lastOp'.name, lastOp'.brand)
           /\ \A n \in (Len(cmds) + 1)..Len(cmds') :
                  cmds'[n].command_type = "Enroll User" =>
                      cmds'[n].biometric_device # lastOp'.device]_vars

\* the rows of the brand that are marked as the source of its template
SourceRowsOf(doc, brand) == {r \in doc.devices : r.brand = brand /\ r.enroll_data_source = 1}

\* C40: after any sequence of template uploads at most one row per user and
\* vendor has enroll_data_source = 1, and after an upload the row of the
\* uploading device, when there is one, is that row
C40_OneSourcePerBrand ==
    /\ \A n \in 1..Len(users) :
           \A k \in 1..Len(_BRAND_BLOB_FIELD) :
               Cardinality(SourceRowsOf(users[n], _BRAND_BLOB_FIELD[k])) <= 1
    /\ lastOp.op \in {"_process_fingerprint_data", "_store_get_user_info_blob"} =>
           \A r \in users[lastOp.name].devices :
               r.biometric_device = lastOp.device => r.enroll_data_source = 1

\* ------------------------------------------------------------------------
\* The flag read by the fast path of receive_cmd
\* ------------------------------------------------------------------------
\* C37: whenever a Pending command exists for a device, the
\* has_pending_command of its entry in the device-to-site map, which the
\* fast path of receive_cmd reads, is set
C37_PendingIsFlagged ==
    \A n \in 1..Len(cmds) :
        cmds[n].status = "Pending" =>
            /\ cmds[n].biometric_device \in DOMAIN siteMap
            /\ get_site_for_device([d \in DOMAIN siteMap |-> siteMap[d].has_pending_command],
                                   cmds[n].biometric_device).has_pending_command = 1

====
